---- MODULE Spec2Model ----
(***************************************************************************)
(* A model of pyschema (src/pyschema/core.py, src/pyschema/types.py,       *)
(* src/pyschema/source_generation.py): field types with their dump/load    *)
(* converters, record construction, the generic (de)serialization engine,  *)
(* the SchemaStore registry and the traversal of the class graph.          *)
(*                                                                         *)
(* Python values are records tagged by their Python type in field t.       *)
(* Strings (str and unicode) carry their text as a sequence of tokens, so  *)
(* that split, decode and the date formats are computed, not looked up.    *)
(* An operation that raises yields the value Raise(<exception class>).     *)
(*                                                                         *)
(* Specifications: Spec (construct, assign, dump, load), SpecDefaults      *)
(* (default containers as objects), SpecStore (SchemaStore and the         *)
(* loaders), SpecClone (a store and its clone), SpecCmp (comparison of     *)
(* instances), SpecDecl (class statements with fields and bases),         *)
(* SpecAutoStore (class statements under no_auto_store, nested), SpecGraph *)
(* (find_descendants calls on one traverser), SpecOrder                    *)
(* (get_reference_ordered_schemas) and SpecSteps (find_descendants call by *)
(* call, under weak fairness of the call in progress).                     *)
(***************************************************************************)
EXTENDS Integers, Sequences, FiniteSets, TLC

VARIABLES
    classes,     \* the declared record classes: class id -> its attributes
    schema,      \* serde: the record class under test (a class id)
    given,       \* serde: the field names given a value, at construction or after
    record,      \* serde: the constructed instance, or Unset
    wire,        \* serde: to_json_compatible(record), Raise(..) or Unset
    loaded,      \* serde: result of the last load_json_dct, or Unset
    input,       \* serde: the wire tree last handed to load_json_dct, or Unset
    assigned,    \* serde: the last attribute assignment and what it raised, or Unset
    pc,          \* serde: position of the driver
    heap,        \* defaults: the list and dict objects, by reference
    stored,      \* defaults: field name -> reference of the field type's default
    inst,        \* defaults: instance -> field name -> reference of its value
    muts,        \* defaults: number of mutations done
    _schema_map, \* store: SchemaStore._schema_map, name -> entry
    added,       \* store: the classes handed to add_record so far
    result,      \* store: outcome of the last operation on the store
    maps,        \* clone: the dict objects of the stores, by reference
    store,       \* clone: a SchemaStore, the references of its two maps
    cloned,      \* clone: the store returned by store.clone(), or None
    call,        \* clone: the last call made on either store
    left,        \* cmp: the record instance on the left of == and !=
    right,       \* cmp: the value on the right
    compared,    \* cmp: what left == right, left != right and right == left gave, or Unset
    _next_index, \* decl: Field._next_index
    objs,        \* decl: the Field objects constructed so far, by reference
    types,       \* decl: the classes created so far, their _fields by reference
    auto_register, \* decl: PySchema.auto_register
    auto_store,  \* decl: the _schema_map of pyschema.core.auto_store
    frames,      \* decl: the class statements being executed, innermost last
    descendants, \* graph: CachedGraphTraverser.descendants, class -> set of classes
    started,     \* graph: CachedGraphTraverser.started, a set of nodes
    ncalls,      \* graph: the number of calls made on the traverser
    found,       \* graph: the last call and what it returned or raised, or Unset
    stack        \* graph: the calls of find_descendants in progress, innermost last

serdeVars == <<schema, given, record, wire, loaded, input, assigned, pc>>
heapVars == <<heap, stored, inst, muts>>
storeVars == <<_schema_map, added, result>>
cloneVars == <<maps, store, cloned, call>>
cmpVars == <<left, right, compared>>
declVars == <<_next_index, objs, types, auto_register, auto_store, frames>>
travVars == <<descendants, started, ncalls, found, stack>>
otherVars == <<cloneVars, cmpVars, declVars, travVars>>

-----------------------------------------------------------------------------
(* Python values *)

Unset == [t |-> "Unset"]
None == [t |-> "None"]
Raise(exc) == [t |-> "raise", v |-> exc]
IsRaise(r) == r.t = "raise"

\* core.py:211-219: the one NO_DEFAULT object, an instance of the old-style
\* class _NoDefault; a deep copy of it is another instance of that class.
NO_DEFAULT == [t |-> "_NoDefault", v |-> "NO_DEFAULT"]
NoDefaultCopy == [t |-> "_NoDefault", v |-> "copy"]

PyUnicode(toks) == [t |-> "unicode", v |-> toks]
PyStr(toks) == [t |-> "str", v |-> toks]
PyInt(n) == [t |-> "int", v |-> n]
PyBool(b) == [t |-> "bool", v |-> b]
\* a float holds its value in halves: PyFloat(3) is 1.5
PyFloat(h) == [t |-> "float", v |-> h]
PyList(s) == [t |-> "list", v |-> s]
PyTuple(s) == [t |-> "tuple", v |-> s]
\* a dict is a function from its keys (Python values) to its values
PyDict(f) == [t |-> "dict", v |-> f]
EmptyDict == PyDict(<<>>)
PyDate(y, m, d) == [t |-> "date", v |-> <<y, m, d>>]
PyDateTime(y, m, d, H, M, S, us) == [t |-> "datetime", v |-> <<y, m, d, H, M, S, us>>]
\* an instance of record class cls holding one value per field
PyRecord(cls, vals) == [t |-> "record", cls |-> cls, v |-> vals]

IsText(x) == x.t \in {"str", "unicode"}

-----------------------------------------------------------------------------
(* Text codecs, token by token *)

\* multi-byte tokens: "xC3A5" is the two bytes C3 A5 (valid UTF-8 of U+00E5),
\* "xFF" is one byte that is no valid UTF-8; every other token is ASCII.
Utf8DecodeTok(tok) ==
    CASE tok = "xC3A5" -> "u00E5"
      [] tok = "xFF" -> "UnicodeDecodeError"
      [] OTHER -> tok

Latin1DecodeTok(tok) ==
    CASE tok = "xC3A5" -> "u00C3u00A5"
      [] tok = "xFF" -> "u00FF"
      [] OTHER -> tok

Latin1EncodeTok(tok) ==
    CASE tok = "u00C3u00A5" -> "xC3A5"
      [] tok = "u00FF" -> "xFF"
      [] tok = "u00E5" -> "xE5"
      [] tok = "u65E5" -> "UnicodeEncodeError"
      [] OTHER -> tok

HasTok(toks, tok) == \E i \in 1..Len(toks) : toks[i] = tok

IsAsciiTok(tok) == tok \notin {"xC3A5", "xFF", "xE5", "u00E5", "u00C3u00A5", "u00FF", "u65E5"}
IsAscii(toks) == \A i \in 1..Len(toks) : IsAsciiTok(toks[i])

\* binascii.b2a_base64 / a2b_base64, token by token
B64Table == {<<"bar", "YmFy">>, <<"foo", "Zm9v">>, <<"xFF", "/w==">>, <<"xC3A5", "w6U=">>}
B64EncodeTok(tok) == (CHOOSE p \in B64Table : p[1] = tok)[2]
IsB64Tok(tok) == \E p \in B64Table : p[2] = tok
B64DecodeTok(tok) == (CHOOSE p \in B64Table : p[2] = tok)[1]

\* str.decode('utf8')
Utf8Decode(toks) ==
    LET out == [i \in 1..Len(toks) |-> Utf8DecodeTok(toks[i])]
    IN  IF HasTok(out, "UnicodeDecodeError")
        THEN Raise("UnicodeDecodeError")
        ELSE PyUnicode(out)

\* str.decode('iso-8859-1'): every byte is a code point
Latin1Decode(toks) == PyUnicode([i \in 1..Len(toks) |-> Latin1DecodeTok(toks[i])])

\* unicode.encode('iso-8859-1'); a str is first decoded as ASCII (Python 2)
Latin1Encode(x) ==
    LET out == [i \in 1..Len(x.v) |-> Latin1EncodeTok(x.v[i])]
    IN  IF x.t = "str" /\ ~IsAscii(x.v) THEN Raise("UnicodeDecodeError")
        ELSE IF HasTok(out, "UnicodeEncodeError") THEN Raise("UnicodeEncodeError")
        ELSE PyStr(out)

-----------------------------------------------------------------------------
(* Field types: core.py Field.__init__ and the constructors of types.py *)

\* core.py:221: the marker for "no default argument given"
_UNTOUCHED == [t |-> "_UNTOUCHED"]
\* types.py:263: the marker for "the enclosing record class"
SELF == "SELF"

\* core.py:228-241 Field.__init__: the default of a field that gives none is
\* None when nullable and NO_DEFAULT otherwise.  arg is what the subclass
\* stores beside it (element type, schema, values, custom_encoding).
Field_NullDefault(kind, nullable, default, arg) ==
    [kind |-> kind,
     nullable |-> nullable,
     default |-> IF default = _UNTOUCHED THEN None ELSE default,
     arg |-> arg]

Field(kind, nullable, default, arg) ==
    [kind |-> kind,
     nullable |-> nullable,
     default |-> IF default = _UNTOUCHED
                 THEN (IF nullable THEN None ELSE NO_DEFAULT)
                 ELSE default,
     arg |-> arg]

Text(nullable, default) == Field("Text", nullable, default, None)
Integer(nullable, default) == Field("Integer", nullable, default, None)
Boolean(nullable, default) == Field("Boolean", nullable, default, None)
Float(nullable, default) == Field("Float", nullable, default, None)
Date(nullable, default) == Field("Date", nullable, default, None)
DateTime(nullable, default) == Field("DateTime", nullable, default, None)
\* types.py:58-60
Bytes(custom_encoding, nullable, default) ==
    Field("Bytes", nullable, default, PyBool(custom_encoding))
\* types.py:134-137: values is a set of strings
Enum(values, nullable, default) ==
    Field("Enum", nullable, default, [t |-> "set", v |-> values])
\* types.py:269-271: schema is a class id or SELF
SubRecord(sch, nullable, default) ==
    Field("SubRecord", nullable, default, [t |-> "schema", v |-> sch])
\* types.py:99-101: List(field_type=Text(), nullable=False, default=[])
List(field_type, nullable, default) ==
    Field("List", nullable, default, field_type)
\* types.py:313-316: Map(value_type, nullable=False, default={})
Map(value_type, nullable, default) ==
    Field("Map", nullable, default, value_type)

\* the constructors called with their default arguments
TextF == Text(TRUE, _UNTOUCHED)
ListOf(field_type) == List(field_type, FALSE, PyList(<<>>))
MapOf(value_type) == Map(value_type, FALSE, EmptyDict)

\* types.py:113-114, 282-290, 335-336 set_parent: a SubRecord(SELF) becomes
\* a SubRecord of the class being declared; List and Map pass it on to their
\* element type; core.py:258-261 every other field ignores it.
RECURSIVE set_parent(_, _)
set_parent(f, cls) ==
    CASE f.kind = "SubRecord" ->
            IF f.arg.v = SELF THEN [f EXCEPT !.arg = [t |-> "schema", v |-> cls]] ELSE f
      [] f.kind \in {"List", "Map"} ->
            [f EXCEPT !.arg = set_parent(f.arg, cls)]
      [] OTHER -> f

\* the field types whose default_value() deep-copies the stored default
\* (types.py:116-118 List, 292-294 SubRecord, 338-340 Map); the others
\* return the stored default itself (core.py:308-309)
CopiesDefault_Never(f) == FALSE

CopiesDefault(f) == f.kind \in {"List", "Map", "SubRecord"}

\* copy.deepcopy of a value: an equal value, but a new object; the only value
\* of the model whose identity shows is the NO_DEFAULT object
RECURSIVE deepcopy(_)
deepcopy(x) ==
    CASE x = NO_DEFAULT -> NoDefaultCopy
      [] x.t \in {"list", "tuple"} ->
            [x EXCEPT !.v = [i \in 1..Len(x.v) |-> deepcopy(x.v[i])]]
      [] x.t = "dict" ->
            [x EXCEPT !.v = [k \in DOMAIN x.v |-> deepcopy(x.v[k])]]
      [] OTHER -> x

default_value(f) == IF CopiesDefault(f) THEN deepcopy(f.default) ELSE f.default

-----------------------------------------------------------------------------
(* Record classes.  A class is named by a class id; several classes may have
   the same __name__.  decl lists the Field attributes of the class body in
   the order of their declaration index.  A namespace is the sequence of the
   dot-separated segments of _namespace, empty when the class has none. *)

Class(name, namespace, decl) ==
    [name |-> name, namespace |-> namespace, avro_namespace |-> <<>>, bases |-> <<>>,
     decl |-> decl]
\* a class that sets the deprecated _avro_namespace_ instead of _namespace
LegacyClass(name, avro_namespace, decl) ==
    [name |-> name, namespace |-> <<>>, avro_namespace |-> avro_namespace, bases |-> <<>>,
     decl |-> decl]
OneField(name, f) == Class(name, <<>>, << <<"field", f>> >>)

FooBar == {<<"FOO">>, <<"BAR">>}

Declarations ==
    [ \* test/type_tests.py
      TextRecord |-> OneField("TextRecord", TextF),
      IntegerRecord |-> OneField("IntegerRecord", Integer(TRUE, _UNTOUCHED)),
      BooleanRecord |-> OneField("BooleanRecord", Boolean(TRUE, _UNTOUCHED)),
      FloatRecord |-> OneField("FloatRecord", Float(TRUE, _UNTOUCHED)),
      DateRecord |-> OneField("DateRecord", Date(TRUE, _UNTOUCHED)),
      DateTimeRecord |-> OneField("DateTimeRecord", DateTime(TRUE, _UNTOUCHED)),
      BytesRecord |-> OneField("BytesRecord", Bytes(FALSE, TRUE, _UNTOUCHED)),
      CustomEncodedBytes |-> OneField("CustomEncodedBytes", Bytes(TRUE, TRUE, _UNTOUCHED)),
      EnumRecord |-> OneField("EnumRecord", Enum(FooBar, TRUE, _UNTOUCHED)),
      ListRecord |-> OneField("ListRecord", ListOf(TextF)),
      MapRecord |-> OneField("MapRecord", MapOf(Integer(TRUE, _UNTOUCHED))),
      Inner |-> OneField("Inner", TextF),
      SubRecordRecord |-> OneField("SubRecordRecord", SubRecord("Inner", TRUE, _UNTOUCHED)),
      SelfReference |-> OneField("SelfReference", SubRecord(SELF, TRUE, _UNTOUCHED)),
      NestedRecord |-> OneField("NestedRecord", MapOf(ListOf(SubRecord(SELF, TRUE, _UNTOUCHED)))),
      ListSub |-> OneField("ListSub", ListOf(SubRecord("Inner", TRUE, _UNTOUCHED))),
      MapSub |-> OneField("MapSub", MapOf(SubRecord("Inner", TRUE, _UNTOUCHED))),
      \* test/avro_tests.py SomeAvroRecord m..s: nullable=False, no default
      ReqText |-> OneField("ReqText", Text(FALSE, _UNTOUCHED)),
      ReqInteger |-> OneField("ReqInteger", Integer(FALSE, _UNTOUCHED)),
      ReqBoolean |-> OneField("ReqBoolean", Boolean(FALSE, _UNTOUCHED)),
      ReqFloat |-> OneField("ReqFloat", Float(FALSE, _UNTOUCHED)),
      ReqDate |-> OneField("ReqDate", Date(FALSE, _UNTOUCHED)),
      ReqDateTime |-> OneField("ReqDateTime", DateTime(FALSE, _UNTOUCHED)),
      ReqBytes |-> OneField("ReqBytes", Bytes(FALSE, FALSE, _UNTOUCHED)),
      ReqB64 |-> OneField("ReqB64", Bytes(TRUE, FALSE, _UNTOUCHED)),
      ReqEnum |-> OneField("ReqEnum", Enum(FooBar, FALSE, _UNTOUCHED)),
      ReqSubRecord |-> OneField("ReqSubRecord", SubRecord("Inner", FALSE, _UNTOUCHED)),
      ReqList |-> OneField("ReqList", ListOf(TextF)),
      ReqMap |-> OneField("ReqMap", MapOf(TextF)),
      \* test/avro_tests.py NullableDefaultRecord
      NullableDefaultRecord |->
          Class("NullableDefaultRecord", <<>>,
                << <<"field_with_default", Text(FALSE, PyUnicode(<<"my_default">>))>>,
                   <<"nullable_field_with_null_default", TextF>>,
                   <<"nullable_field_with_other_default",
                     Text(TRUE, PyUnicode(<<"my_other_default">>))>> >>),
      \* test/serde_tests.py TestExtraFields, with a Date beside the Integer
      ValidRecord |->
          Class("ValidRecord", <<>>,
                << <<"field", Integer(TRUE, _UNTOUCHED)>>,
                   <<"day", Date(TRUE, _UNTOUCHED)>> >>),
      \* test/namespace_test.py:9-11, test/namespaced_schemas.py:5-8,
      \* test/namespace_test.py:111-114 (the duplicate of the namespaced
      \* class), a class of the same name in another namespace, and
      \* test/namespace_test.py:90-93
      TestRecord |-> Class("TestRecord", <<>>, << <<"a", TextF>> >>),
      NamespacedTestRecord |->
          Class("TestRecord", <<"my", ".", "namespace">>, << <<"a", TextF>> >>),
      DuplicatedTestRecord |->
          Class("TestRecord", <<"my", ".", "namespace">>, << <<"a", TextF>> >>),
      OtherNamespaceTestRecord |-> Class("TestRecord", <<"ns2">>, << <<"a", TextF>> >>),
      LegacyTestRecord |-> LegacyClass("TestRecord", <<"legacy">>, << <<"a", TextF>> >>),
      \* test/avro_tests.py:332 another class TestRecord without a namespace
      RedefinedTestRecord |-> Class("TestRecord", <<>>, << <<"a", TextF>> >>),
      \* a class of the same schema name with one field more
      WiderTestRecord |->
          Class("TestRecord", <<>>, << <<"a", TextF>>, <<"b", TextF>> >>) ]

ClassIds == DOMAIN Declarations
\* the classes the store is exercised with, and the classes of the type tests
StoreClasses ==
    {"TestRecord", "NamespacedTestRecord", "DuplicatedTestRecord",
     "OtherNamespaceTestRecord", "LegacyTestRecord"}
\* a second declaration of the non-namespaced class
RedefinedClasses == {"RedefinedTestRecord"}
WiderClasses == {"WiderTestRecord"}
TypeClasses == ClassIds \ (StoreClasses \cup RedefinedClasses \cup WiderClasses)

\* core.py:330-345, 359-385 PySchema.__new__: the attributes of the class
\* declared by d: _fields maps the field names, in declaration order, to the
\* field types, each after set_parent(cls); _schema_name is the class name
PySchema(cls, d) ==
    [__name__ |-> d.name,
     __bases__ |-> d.bases,
     _namespace |-> d.namespace,
     _avro_namespace_ |-> d.avro_namespace,
     _schema_name |-> d.name,
     _fields |-> [i \in 1..Len(d.decl) |-> <<d.decl[i][1], set_parent(d.decl[i][2], cls)>>]]

\* the state after the class statements have run
DeclaredClasses == [cls \in ClassIds |-> PySchema(cls, Declarations[cls])]

_fields(cls) == classes[cls]._fields
\* isinstance(obj, cls) for a record class cls: the class of obj is cls or
\* has it among the bases of its bases
RECURSIVE Ancestors(_)
Ancestors(cls) ==
    {cls} \cup UNION {Ancestors(classes[cls].__bases__[i]) :
                        i \in 1..Len(classes[cls].__bases__)}
isinstance(obj, cls) == obj.t = "record" /\ cls \in Ancestors(obj.cls)
_schema_name(cls) == classes[cls]._schema_name
FieldNames(cls) == {classes[cls]._fields[i][1] : i \in 1..Len(classes[cls]._fields)}
FieldType(cls, fname) ==
    LET fs == classes[cls]._fields
    IN  fs[CHOOSE j \in 1..Len(fs) : fs[j][1] = fname][2]

\* core.py:443-456 Record.__init__(**kwargs): kwargs is a function from some
\* names to values; a field without a keyword gets its default_value()
RecordInit_NoneForMissing(cls, kwargs) ==
    PyRecord(cls, [k \in FieldNames(cls) |->
                     IF k \in DOMAIN kwargs THEN kwargs[k] ELSE None])

RecordInit(cls, kwargs) ==
    PyRecord(cls, [k \in FieldNames(cls) |->
                     IF k \in DOMAIN kwargs THEN kwargs[k]
                     ELSE default_value(FieldType(cls, k))])

\* core.py:458-465 Record.__setattr__(name, value): the instance afterwards
\* and what was raised; object.__setattr__ binds the name in the instance
__setattr___Unchecked(self, name, value) ==
    [self |-> [self EXCEPT !.v = [k \in DOMAIN self.v \cup {name} |->
                                    IF k = name THEN value ELSE self.v[k]]],
     raised |-> None]

__setattr__(self, name, value) ==
    IF name \notin FieldNames(self.cls)
    THEN [self |-> self, raised |-> Raise("AttributeError")]
    ELSE [self |-> [self EXCEPT !.v = [k \in DOMAIN self.v \cup {name} |->
                                        IF k = name THEN value ELSE self.v[k]]],
          raised |-> None]

-----------------------------------------------------------------------------
(* Comparison of Python values: cmp(a, b) == 0 *)

IsNumber(x) == x.t \in {"int", "bool", "float"}
\* the numeric value in halves
Halves(x) ==
    CASE x.t = "int" -> 2 * x.v
      [] x.t = "bool" -> IF x.v THEN 2 ELSE 0
      [] x.t = "float" -> x.v

\* cmp of two sequences of outcomes, element by element: the first element
\* that is not "eq" decides
RECURSIVE FirstNonEq(_, _)
FirstNonEq(outs, i) ==
    IF i > Len(outs) THEN "eq"
    ELSE IF outs[i] # "eq" THEN outs[i]
    ELSE FirstNonEq(outs, i + 1)

\* id(x) of an instance: the address the driver gave it; an instance it gave
\* none lies at an address that no number in play equals
id(x) == IF "id" \in DOMAIN x THEN x.id ELSE -1

\* core.py:480-482 cmp(id(self), other) for an other that is no Record: an
\* int against a number compares by value, against a date or datetime cmp
\* raises TypeError, against anything else it is non-zero
CmpId(self, other) ==
    IF other.t \in {"date", "datetime"} THEN "TypeError"
    ELSE IF IsNumber(other) /\ Halves(other) = 2 * id(self) THEN "eq"
    ELSE "ne"

\* core.py:479-493 Record.__cmp__ and the built-in cmp it calls on the field
\* values: "eq" when cmp returns 0, "ne" when it returns non-zero, or the
\* name of the exception it raises.
RECURSIVE PyCmp(_, _)
PyCmp(a, b) ==
    CASE a.t = "record" /\ b.t = "record" ->
            IF _schema_name(a.cls) # _schema_name(b.cls) THEN "ne"
            ELSE LET keys == [i \in 1..Len(_fields(a.cls)) |-> _fields(a.cls)[i][1]]
                     outs == [i \in 1..Len(keys) |->
                                IF keys[i] \notin DOMAIN b.v THEN "AttributeError"
                                ELSE PyCmp(a.v[keys[i]], b.v[keys[i]])]
                 IN  FirstNonEq(outs, 1)
      [] a.t = "record" /\ b.t # "record" -> CmpId(a, b)
      [] a.t # "record" /\ b.t = "record" -> CmpId(b, a)
      [] IsNumber(a) /\ IsNumber(b) ->
            IF Halves(a) = Halves(b) THEN "eq" ELSE "ne"
      [] IsText(a) /\ IsText(b) ->
            IF a.t = b.t THEN (IF a.v = b.v THEN "eq" ELSE "ne")
            ELSE LET s == IF a.t = "str" THEN a ELSE b
                     u == IF a.t = "str" THEN b ELSE a
                 IN  IF ~IsAscii(s.v) THEN "UnicodeDecodeError"
                     ELSE IF s.v = u.v THEN "eq" ELSE "ne"
      [] a.t \in {"list", "tuple"} /\ a.t = b.t ->
            LET n == IF Len(a.v) < Len(b.v) THEN Len(a.v) ELSE Len(b.v)
                outs == [i \in 1..n |-> PyCmp(a.v[i], b.v[i])]
                r == FirstNonEq(outs, 1)
            IN  IF r # "eq" THEN r
                ELSE IF Len(a.v) = Len(b.v) THEN "eq" ELSE "ne"
      [] a.t = "dict" /\ b.t = "dict" ->
            IF Cardinality(DOMAIN a.v) # Cardinality(DOMAIN b.v) THEN "ne"
            ELSE IF \E k \in DOMAIN a.v :
                       ~\E k2 \in DOMAIN b.v : PyCmp(k, k2) = "eq"
                 THEN "ne"
            ELSE LET outs == {PyCmp(a.v[p[1]], b.v[p[2]]) :
                                p \in {q \in (DOMAIN a.v) \X (DOMAIN b.v) :
                                            PyCmp(q[1], q[2]) = "eq"}}
                 IN  IF outs \subseteq {"eq"} THEN "eq"
                     ELSE IF outs \subseteq {"eq", "ne"} THEN "ne"
                     ELSE CHOOSE o \in outs : o \notin {"eq", "ne"}
      [] a.t = "date" /\ b.t = "date" -> IF a.v = b.v THEN "eq" ELSE "ne"
      [] a.t = "datetime" /\ b.t = "datetime" -> IF a.v = b.v THEN "eq" ELSE "ne"
      [] {a.t, b.t} = {"date", "datetime"} -> "TypeError"
      [] /\ (a.t \in {"date", "datetime"}) # (b.t \in {"date", "datetime"})
         /\ a.t # "record" /\ b.t # "record" -> "TypeError"
      [] a.t = "_NoDefault" /\ b.t = "_NoDefault" -> IF a.v = b.v THEN "eq" ELSE "ne"
      [] a.t = "None" /\ b.t = "None" -> "eq"
      [] OTHER -> "ne"

\* core.py:495-499 Record.__eq__ and __ne__: a bool, or what __cmp__ raised
__eq__(self, other) ==
    IF PyCmp(self, other) \in {"eq", "ne"} THEN PyBool(PyCmp(self, other) = "eq")
    ELSE Raise(PyCmp(self, other))

__ne__(self, other) ==
    IF PyCmp(self, other) \in {"eq", "ne"} THEN PyBool(PyCmp(self, other) # "eq")
    ELSE Raise(PyCmp(self, other))

-----------------------------------------------------------------------------
(* Numbers in text: the tokens int() and strptime read, and the zero-padded
   tokens str(date) and str(datetime) write *)

NumTokens ==
    { <<"2014", 2014>>, <<"2012", 2012>>, <<"00", 0>>, <<"01", 1>>, <<"02", 2>>,
      <<"03", 3>>, <<"04", 4>>, <<"4", 4>>, <<"12", 12>>, <<"13", 13>>,
      <<"20", 20>>, <<"23", 23>>, <<"012345", 12345>> }

IsNumTok(tok) == \E p \in NumTokens : p[1] = tok
IntOfTok(tok) == (CHOOSE p \in NumTokens : p[1] = tok)[2]
\* "%04d", "%02d", "%06d"
Padded(n, width) ==
    LET w == IF width = 4 THEN {"2014", "2012"}
             ELSE IF width = 6 THEN {"012345"}
             ELSE {"00", "01", "02", "03", "04", "12", "13", "20", "23"}
    IN  (CHOOSE p \in NumTokens : p[2] = n /\ p[1] \in w)[1]

\* str.split(sep): the parts between the occurrences of the token sep
RECURSIVE Split(_, _)
Split(toks, sep) ==
    IF ~HasTok(toks, sep) THEN <<toks>>
    ELSE LET i == CHOOSE j \in 1..Len(toks) :
                    toks[j] = sep /\ \A k \in 1..(j - 1) : toks[k] # sep
         IN  <<SubSeq(toks, 1, i - 1)>> \o Split(SubSeq(toks, i + 1, Len(toks)), sep)

\* int(s) of a part of a split string: a value, or "ValueError"
IsIntPart(part) == Len(part) = 1 /\ IsNumTok(part[1])

\* datetime.date(y, m, d) accepts the days of the calendar
DaysIn(y, m) ==
    IF m = 2 THEN (IF y % 4 = 0 /\ (y % 100 # 0 \/ y % 400 = 0) THEN 29 ELSE 28)
    ELSE IF m \in {4, 6, 9, 11} THEN 30 ELSE 31
ValidDate(y, m, d) == y \in 1..9999 /\ m \in 1..12 /\ d \in 1..DaysIn(y, m)
ValidTime(H, M, S) == H \in 0..23 /\ M \in 0..59 /\ S \in 0..59

\* str(datetime.date): "YYYY-MM-DD"
DateStr(v) == <<Padded(v[1], 4), "-", Padded(v[2], 2), "-", Padded(v[3], 2)>>
\* str(datetime.datetime): "YYYY-MM-DD HH:MM:SS", with ".ffffff" when the
\* microsecond is not 0
DateTimeStr(v) ==
    DateStr(v) \o <<" ", Padded(v[4], 2), ":", Padded(v[5], 2), ":", Padded(v[6], 2)>>
               \o (IF v[7] = 0 THEN <<>> ELSE <<".", Padded(v[7], 6)>>)

\* types.py:236-242 Date.load on a string: split('-'), int(), datetime.date()
DateParse(toks) ==
    LET parts == Split(toks, "-")
    IN  IF Len(parts) # 3 THEN Raise("ValueError")
        ELSE IF \E i \in 1..3 : ~IsIntPart(parts[i]) THEN Raise("ValueError")
        ELSE LET y == IntOfTok(parts[1][1])
                 m == IntOfTok(parts[2][1])
                 d == IntOfTok(parts[3][1])
             IN  IF ValidDate(y, m, d) THEN PyDate(y, m, d) ELSE Raise("ValueError")

\* datetime.strptime(s, "%Y-%m-%d %H:%M:%S") and, with frac, "...%S.%f"
StrpTime(toks, frac) ==
    LET n == IF frac THEN 13 ELSE 11
        seps == IF frac THEN <<"-", "-", " ", ":", ":", ".">> ELSE <<"-", "-", " ", ":", ":">>
    IN  IF Len(toks) # n THEN Raise("ValueError")
        ELSE IF \E i \in 1..Len(seps) : toks[2 * i] # seps[i] THEN Raise("ValueError")
        ELSE IF \E i \in 1..((n + 1) \div 2) : ~IsNumTok(toks[2 * i - 1]) THEN Raise("ValueError")
        ELSE LET num(i) == IntOfTok(toks[2 * i - 1])
             IN  IF ValidDate(num(1), num(2), num(3)) /\ ValidTime(num(4), num(5), num(6))
                 THEN PyDateTime(num(1), num(2), num(3), num(4), num(5), num(6),
                                 IF frac THEN num(7) ELSE 0)
                 ELSE Raise("ValueError")

-----------------------------------------------------------------------------
(* Dict iteration.  Python 2 iterates a dict in the order of its hash table;
   the caller of an operation that iterates one passes the order as ord, a
   ranking of the keys.  Keys that never share a dict share a slot of the
   ranking: the first field or map key, the second one, and any other key. *)

KeySlot(tok) ==
    CASE tok \in {"field", "foo", "a"} -> 1
      [] tok \in {"day", "bar"} -> 2
      [] OTHER -> 3
Orders == {o \in [1..3 -> 1..3] : \A a, b \in 1..3 : a # b => o[a] # o[b]}

Rank(ord, key) ==
    IF IsText(key) /\ Len(key.v) > 0 THEN ord[KeySlot(key.v[1])] ELSE 0

\* the keys of dict d in iteration order
RECURSIVE IterKeys(_, _)
IterKeys(keys, ord) ==
    IF keys = {} THEN <<>>
    ELSE LET k == CHOOSE x \in keys : \A y \in keys : Rank(ord, x) <= Rank(ord, y)
         IN  <<k>> \o IterKeys(keys \ {k}, ord)

\* the first raise in a sequence of outcomes, or None when there is none
RECURSIVE FirstRaise(_, _)
FirstRaise(outs, i) ==
    IF i > Len(outs) THEN None
    ELSE IF IsRaise(outs[i]) THEN outs[i]
    ELSE FirstRaise(outs, i + 1)

\* hash(x) raises TypeError for a list or a dict
Unhashable(x) == x.t \in {"list", "dict"}

-----------------------------------------------------------------------------
(* dump: native value -> wire value (types.py), and to_json_compatible *)

\* obj in Enum.values / obj in Boolean.VALUE_MAP for a hashable obj
InValues(obj, values) == \E m \in values : PyCmp(obj, PyStr(m)) = "eq"
InValueMap(obj) == IsNumber(obj) /\ Halves(obj) \in {0, 2}

\* types.py:43-52 Text.dump
TextDump_NoDecode(obj) ==
    IF obj.t \in {"unicode", "None", "str"} THEN obj ELSE Raise("ValueError")

TextDump(obj) ==
    IF obj.t \in {"unicode", "None"} THEN obj
    ELSE IF obj.t = "str" /\ ~IsRaise(Utf8Decode(obj.v)) THEN Utf8Decode(obj.v)
    ELSE Raise("ValueError")

\* types.py:65-66, 71-72, 79-87 Bytes.dump
BytesDump(f, obj) ==
    IF obj.t = "unicode" THEN Raise("ValueError")
    ELSE IF ~f.arg.v
         THEN (IF obj.t = "str" THEN Latin1Decode(obj.v) ELSE Raise("AttributeError"))
         ELSE (IF obj.t = "str"
               THEN PyStr([i \in 1..Len(obj.v) |-> B64EncodeTok(obj.v[i])])
               ELSE Raise("TypeError"))

\* types.py:173-176 Integer.dump
IntegerDump(obj) ==
    IF obj.t \in {"int", "None"} THEN obj ELSE Raise("ValueError")

\* types.py:198-202 Boolean.dump
BooleanDump(obj) ==
    IF Unhashable(obj) THEN Raise("TypeError")
    ELSE IF ~InValueMap(obj) THEN Raise("ValueError")
    ELSE PyBool(Halves(obj) # 0)

\* types.py:216-219 Float.dump
FloatDump(obj) == IF obj.t = "float" THEN obj ELSE Raise("ValueError")

\* types.py:231-234 Date.dump: a datetime is a date too
DateDump(obj) ==
    CASE obj.t = "date" -> PyStr(DateStr(obj.v))
      [] obj.t = "datetime" -> PyStr(DateTimeStr(obj.v))
      [] OTHER -> Raise("ValueError")

\* types.py:246-249 DateTime.dump
DateTimeDump(obj) ==
    IF obj.t = "datetime" THEN PyStr(DateTimeStr(obj.v)) ELSE Raise("ValueError")

\* types.py:142-147 Enum.dump
EnumDump(f, obj) ==
    IF Unhashable(obj) THEN Raise("TypeError")
    ELSE IF ~InValues(obj, f.arg.v) THEN Raise("ValueError")
    ELSE TextDump(obj)

\* the dict built from the (key, value) outcomes of a dict's items, or the
\* first raise in iteration order
DictOf(keys, kout, vout) ==
    LET n == Len(keys)
        outs == [i \in 1..(2 * n) |->
                    IF i % 2 = 1 THEN kout[keys[(i + 1) \div 2]] ELSE vout[keys[i \div 2]]]
    IN  IF FirstRaise(outs, 1) # None THEN FirstRaise(outs, 1)
        ELSE PyDict([k \in {kout[keys[i]] : i \in 1..n} |->
                        vout[CHOOSE x \in {keys[i] : i \in 1..n} : kout[x] = k]])

RECURSIVE dump(_, _, _)
RECURSIVE to_json_compatible(_, _)

\* core.py:502-509 to_json_compatible: the fields in declaration order, a
\* None value left out; the first dump that raises ends it
to_json_compatible(rec, ord) ==
    LET fs == _fields(rec.cls)
        outs == [i \in 1..Len(fs) |->
                    IF rec.v[fs[i][1]] = None THEN None
                    ELSE dump(fs[i][2], rec.v[fs[i][1]], ord)]
    IN  IF FirstRaise(outs, 1) # None THEN FirstRaise(outs, 1)
        ELSE PyDict([k \in {PyStr(<<fs[i][1]>>) : i \in {j \in 1..Len(fs) : rec.v[fs[j][1]] # None}} |->
                        outs[CHOOSE i \in 1..Len(fs) : PyStr(<<fs[i][1]>>) = k]])

\* Field.dump by field type
dump(f, obj, ord) ==
    CASE f.kind = "Text" -> TextDump(obj)
      [] f.kind = "Bytes" -> BytesDump(f, obj)
      [] f.kind = "Integer" -> IntegerDump(obj)
      [] f.kind = "Boolean" -> BooleanDump(obj)
      [] f.kind = "Float" -> FloatDump(obj)
      [] f.kind = "Date" -> DateDump(obj)
      [] f.kind = "DateTime" -> DateTimeDump(obj)
      [] f.kind = "Enum" -> EnumDump(f, obj)
      [] f.kind = "List" ->
            \* types.py:108-111
            IF obj.t \notin {"list", "tuple"} THEN Raise("ValueError")
            ELSE LET outs == [i \in 1..Len(obj.v) |-> dump(f.arg, obj.v[i], ord)]
                 IN  IF FirstRaise(outs, 1) # None THEN FirstRaise(outs, 1)
                     ELSE PyList(outs)
      [] f.kind = "Map" ->
            \* types.py:325-333
            IF obj.t # "dict" THEN Raise("ValueError")
            ELSE DictOf(IterKeys(DOMAIN obj.v, ord),
                        [k \in DOMAIN obj.v |-> TextDump(k)],
                        [k \in DOMAIN obj.v |-> dump(f.arg, obj.v[k], ord)])
      [] f.kind = "SubRecord" ->
            \* types.py:273-277
            IF ~isinstance(obj, f.arg.v) THEN Raise("ValueError")
            ELSE to_json_compatible(obj, ord)

-----------------------------------------------------------------------------
(* load: wire value -> native value (types.py), and from_json_compatible *)

\* what a SchemaStore holds under a name (and what load_json_dct hands to the
\* loader): a record class, or the placeholder of core.py:75-86
ClassEntry(cls) == [t |-> "class", v |-> cls]
InvalidSchemaSpecification == [t |-> "InvalidSchemaSpecification"]

\* types.py:38-41 Text.load
TextLoad(obj) ==
    IF obj.t \in {"unicode", "None"} THEN obj ELSE Raise("ParseError")

\* types.py:62-63, 68-69, 74-77 Bytes.load
BytesLoad(f, obj) ==
    IF ~IsText(obj) THEN Raise("AttributeError")
    ELSE IF ~f.arg.v THEN Latin1Encode(obj)
    ELSE IF ~IsAscii(obj.v)
         THEN Raise(IF obj.t = "str" THEN "UnicodeDecodeError" ELSE "UnicodeEncodeError")
    ELSE IF \E i \in 1..Len(obj.v) : ~IsB64Tok(obj.v[i]) THEN Raise("binascii.Error")
    ELSE PyStr([i \in 1..Len(obj.v) |-> B64DecodeTok(obj.v[i])])

\* types.py:178-181 Integer.load
IntegerLoad(obj) ==
    IF obj.t \in {"int", "None"} THEN obj ELSE Raise("ParseError")

\* types.py:204-208 Boolean.load
BooleanLoad(obj) ==
    IF Unhashable(obj) THEN Raise("TypeError")
    ELSE IF ~InValueMap(obj) THEN Raise("ParseError")
    ELSE PyBool(Halves(obj) # 0)

\* types.py:221-224 Float.load: an int (or bool) is promoted
FloatLoad(obj) ==
    IF IsNumber(obj) THEN PyFloat(Halves(obj)) ELSE Raise("ParseError")

\* types.py:236-242 Date.load
DateLoad(obj) ==
    IF ~IsText(obj) THEN Raise("AttributeError") ELSE DateParse(obj.v)

\* types.py:251-257 DateTime.load
DateTimeLoad(obj) ==
    IF ~IsText(obj) THEN Raise("TypeError") ELSE StrpTime(obj.v, HasTok(obj.v, "."))

\* types.py:149-155 Enum.load
EnumLoad(f, obj) ==
    LET parsed == TextLoad(obj)
    IN  IF IsRaise(parsed) THEN parsed
        ELSE IF parsed # None /\ ~InValues(parsed, f.arg.v) THEN Raise("ParseError")
        ELSE parsed

\* the field of class cls that the wire key names, or None
FieldOfKey(cls, key) ==
    IF IsText(key) /\ Len(key.v) = 1 /\ IsAsciiTok(key.v[1]) /\ key.v[1] \in FieldNames(cls)
    THEN FieldType(cls, key.v[1])
    ELSE None

RECURSIVE load(_, _, _)
RECURSIVE from_json_compatible(_, _, _)

\* core.py:512-522 from_json_compatible(schema, dct): sch is a ClassEntry or
\* the placeholder, whose every attribute access raises ValueError and which
\* is not callable
from_json_compatible(sch, dct, ord) ==
    LET keys == CASE dct.t = "dict" -> IterKeys(DOMAIN dct.v, ord)
                  [] dct.t \in {"list", "tuple"} -> dct.v
                  [] IsText(dct) -> [i \in 1..Len(dct.v) |-> [dct EXCEPT !.v = <<dct.v[i]>>]]
                  [] OTHER -> <<>>
    IN  IF ~(dct.t \in {"dict", "list", "tuple"} \/ IsText(dct)) THEN Raise("TypeError")
        ELSE IF sch = InvalidSchemaSpecification
             THEN (IF Len(keys) > 0 THEN Raise("ValueError") ELSE Raise("TypeError"))
        ELSE LET cls == sch.v
                 outs == [i \in 1..Len(keys) |->
                            IF Unhashable(keys[i]) THEN Raise("TypeError")
                            ELSE IF FieldOfKey(cls, keys[i]) = None THEN Raise("ParseError")
                            ELSE IF dct.t # "dict" THEN Raise("TypeError")
                            ELSE load(FieldOfKey(cls, keys[i]), dct.v[keys[i]], ord)]
             IN  IF FirstRaise(outs, 1) # None THEN FirstRaise(outs, 1)
                 ELSE RecordInit(cls, [k \in {keys[i].v[1] : i \in 1..Len(keys)} |->
                                         outs[CHOOSE i \in 1..Len(keys) : keys[i].v[1] = k]])

\* Field.load by field type
load(f, obj, ord) ==
    CASE f.kind = "Text" -> TextLoad(obj)
      [] f.kind = "Bytes" -> BytesLoad(f, obj)
      [] f.kind = "Integer" -> IntegerLoad(obj)
      [] f.kind = "Boolean" -> BooleanLoad(obj)
      [] f.kind = "Float" -> FloatLoad(obj)
      [] f.kind = "Date" -> DateLoad(obj)
      [] f.kind = "DateTime" -> DateTimeLoad(obj)
      [] f.kind = "Enum" -> EnumLoad(f, obj)
      [] f.kind = "List" ->
            \* types.py:103-106
            IF obj.t # "list" THEN Raise("ParseError")
            ELSE LET outs == [i \in 1..Len(obj.v) |-> load(f.arg, obj.v[i], ord)]
                 IN  IF FirstRaise(outs, 1) # None THEN FirstRaise(outs, 1)
                     ELSE PyList(outs)
      [] f.kind = "Map" ->
            \* types.py:318-323
            IF obj.t # "dict" THEN Raise("AttributeError")
            ELSE DictOf(IterKeys(DOMAIN obj.v, ord),
                        [k \in DOMAIN obj.v |-> TextLoad(k)],
                        [k \in DOMAIN obj.v |-> load(f.arg, obj.v[k], ord)])
      [] f.kind = "SubRecord" ->
            \* types.py:279-280
            from_json_compatible(ClassEntry(f.arg.v), obj, ord)

-----------------------------------------------------------------------------
(* SchemaStore (core.py:89-192).  A name is a string, held as its tokens with
   "." a token of its own: "my.namespace.TestRecord" is
   <<"my", ".", "namespace", ".", "TestRecord">>.  _schema_map is a function
   from names to entries. *)

\* core.py:201-208 get_full_name
get_full_name(cls) ==
    IF classes[cls]._namespace # <<>>
    THEN classes[cls]._namespace \o <<".">> \o <<classes[cls].__name__>>
    ELSE IF classes[cls]._avro_namespace_ # <<>>
    THEN classes[cls]._avro_namespace_ \o <<".">> \o <<classes[cls].__name__>>
    ELSE <<classes[cls].__name__>>

\* record_name.split('.')[-1]
LastSegment(name) == Split(name, ".")[Len(Split(name, "."))]

\* core.py:152-164 SchemaStore.get: the entry, or Raise("KeyError")
get_LastNameFirst(map, record_name) ==
    IF LastSegment(record_name) \in DOMAIN map THEN map[LastSegment(record_name)]
    ELSE IF record_name \in DOMAIN map THEN map[record_name]
    ELSE Raise("KeyError")

get_NoFallback(map, record_name) ==
    IF record_name \in DOMAIN map THEN map[record_name] ELSE Raise("KeyError")

get(map, record_name) ==
    IF record_name \in DOMAIN map THEN map[record_name]
    ELSE IF LastSegment(record_name) \in DOMAIN map THEN map[LastSegment(record_name)]
    ELSE Raise("KeyError")

SCHEMA_FIELD_NAME == "$schema"
IsSchemaKey(k) == IsText(k) /\ k.v = <<SCHEMA_FIELD_NAME>>
WithoutSchemaKey(dct) ==
    PyDict([k \in {x \in DOMAIN dct.v : ~IsSchemaKey(x)} |-> dct.v[k]])

\* core.py:541-586 load_json_dct(dct, record_store, schema): sch is None when
\* no schema is given, map is the _schema_map of the record store
load_json_dct_KeyError(dct, map, sch, ord) ==
    IF sch = None
    THEN IF ~\E k \in DOMAIN dct.v : IsSchemaKey(k) THEN Raise("KeyError")
         ELSE LET schema_name == dct.v[CHOOSE k \in DOMAIN dct.v : IsSchemaKey(k)]
                  entry == get(map, schema_name.v)
              IN  IF Unhashable(schema_name) THEN Raise("TypeError")
                  ELSE IF ~IsText(schema_name) THEN Raise("AttributeError")
                  ELSE IF IsRaise(entry) THEN entry
                  ELSE from_json_compatible(entry, WithoutSchemaKey(dct), ord)
    ELSE from_json_compatible(sch, WithoutSchemaKey(dct), ord)

load_json_dct(dct, map, sch, ord) ==
    IF sch = None
    THEN IF ~\E k \in DOMAIN dct.v : IsSchemaKey(k) THEN Raise("ParseError")
         ELSE LET schema_name == dct.v[CHOOSE k \in DOMAIN dct.v : IsSchemaKey(k)]
                  entry == get(map, schema_name.v)
              IN  IF Unhashable(schema_name) THEN Raise("TypeError")
                  ELSE IF ~IsText(schema_name) THEN Raise("AttributeError")
                  ELSE IF entry = Raise("KeyError") THEN Raise("ParseError")
                  ELSE from_json_compatible(entry, WithoutSchemaKey(dct), ord)
    ELSE from_json_compatible(sch, WithoutSchemaKey(dct), ord)

\* json.dumps followed by json.loads: a str comes back as unicode (decoded as
\* utf8 by json.dumps), a tuple as a list, a dict key as unicode
RECURSIVE json(_)
json(x) ==
    CASE x.t = "str" -> Utf8Decode(x.v)
      [] x.t \in {"list", "tuple"} ->
            LET outs == [i \in 1..Len(x.v) |-> json(x.v[i])]
            IN  IF FirstRaise(outs, 1) # None THEN FirstRaise(outs, 1) ELSE PyList(outs)
      [] x.t = "dict" ->
            LET keys == IterKeys(DOMAIN x.v, [i \in 1..3 |-> i])
            IN  DictOf(keys, [k \in DOMAIN x.v |-> IF IsText(k) THEN json(k) ELSE Raise("TypeError")],
                       [k \in DOMAIN x.v |-> json(x.v[k])])
      [] OTHER -> x

\* a JSON text, held as the tree json.loads makes of it
JsonText(tree) == [t |-> "jsontext", v |-> tree]

\* core.py:631-637 dumps(obj): the JSON text of the wire tree with the full
\* name of the class under "$schema"
dumps(obj, ord) ==
    LET json_dct == to_json_compatible(obj, ord)
        tagged == PyDict((PyStr(<<SCHEMA_FIELD_NAME>>) :> PyStr(get_full_name(obj.cls)))
                            @@ json_dct.v)
    IN  IF IsRaise(json_dct) THEN json_dct
        ELSE IF IsRaise(json(tagged)) THEN json(tagged)
        ELSE JsonText(json(tagged))

\* core.py:589-628 loads(s, record_store, schema): s is a JSON text, or a
\* string that is not one
loads(s, map, sch, ord) ==
    IF s.t = "jsontext"
    THEN (IF s.v.t = "dict" THEN load_json_dct(s.v, map, sch, ord) ELSE Raise("ParseError"))
    ELSE IF s.t = "str" /\ IsRaise(Utf8Decode(s.v)) THEN Raise("UnicodeDecodeError")
    ELSE IF Len(s.v) > 0 /\ s.v[1] = "{" THEN Raise("ValueError")
    ELSE Raise("ParseError")

\* core.py:98-99 '.' in full_name
has_namespace(cls) == HasTok(get_full_name(cls), ".")

\* an existing placeholder is taken for an entry that may be replaced
_force_add_Unpoison(map, used_name, cls, _raise_on_existing) ==
    LET existing == IF used_name \in DOMAIN map THEN map[used_name] ELSE None
        conflict == existing # None /\ existing # ClassEntry(cls)
    IN  [map |-> [n \in DOMAIN map \cup {used_name} |->
                    IF n # used_name THEN map[n]
                    ELSE IF conflict /\ _raise_on_existing /\ existing # InvalidSchemaSpecification
                    THEN InvalidSchemaSpecification
                    ELSE ClassEntry(cls)],
         raised |-> None]

\* core.py:127-150 _force_add: the _schema_map afterwards, and what was
\* raised; "(actually {0})".format() raises IndexError
_force_add(map, used_name, cls, _raise_on_existing) ==
    LET existing == IF used_name \in DOMAIN map THEN map[used_name] ELSE None
        conflict == existing # None /\ existing # ClassEntry(cls)
        entry == IF conflict /\ _raise_on_existing THEN InvalidSchemaSpecification
                 ELSE ClassEntry(cls)
    IN  IF conflict /\ get_full_name(cls) # used_name
        THEN [map |-> map, raised |-> Raise("IndexError")]
        ELSE [map |-> [n \in DOMAIN map \cup {used_name} |->
                            IF n = used_name THEN entry ELSE map[n]],
              raised |-> None]

\* core.py:105 schema.__name__ not in self._schema_map
BareNameFree_Always(map, cls) == TRUE

BareNameFree(map, cls) == <<classes[cls].__name__>> \notin DOMAIN map

\* core.py:97-107 add_record: the _schema_map afterwards, and the class
\* returned or what was raised
add_record_PoisonBare(map, cls) ==
    LET first == _force_add(map, get_full_name(cls), cls, has_namespace(cls))
        bare == <<classes[cls].__name__>>
    IN  IF ~has_namespace(cls) THEN [map |-> first.map, out |-> ClassEntry(cls)]
        ELSE [map |-> [n \in DOMAIN first.map \cup {bare} |->
                        IF n # bare THEN first.map[n]
                        ELSE IF bare \in DOMAIN first.map /\ first.map[bare] # ClassEntry(cls)
                             THEN InvalidSchemaSpecification
                             ELSE ClassEntry(cls)],
              out |-> ClassEntry(cls)]

\* the class added last takes the bare name
add_record_LastWins(map, cls) ==
    LET first == _force_add(map, get_full_name(cls), cls, has_namespace(cls))
    IN  [map |-> [n \in DOMAIN first.map \cup {<<classes[cls].__name__>>} |->
                    IF n = <<classes[cls].__name__>> THEN ClassEntry(cls) ELSE first.map[n]],
         out |-> ClassEntry(cls)]

add_record(map, cls) ==
    LET first == _force_add(map, get_full_name(cls), cls, has_namespace(cls))
        second == _force_add(first.map, <<classes[cls].__name__>>, cls, FALSE)
    IN  IF first.raised # None THEN [map |-> first.map, out |-> first.raised]
        ELSE IF has_namespace(cls) /\ BareNameFree(first.map, cls)
        THEN [map |-> second.map,
              out |-> IF second.raised # None THEN second.raised ELSE ClassEntry(cls)]
        ELSE [map |-> first.map, out |-> ClassEntry(cls)]

-----------------------------------------------------------------------------
(* The values the driver constructs records from and the wire trees it loads:
   the allowed and forbidden values of test/type_tests.py and their like. *)

\* the depth of the nested self-referential instances
MaxNest == 2

uFoo == PyUnicode(<<"foo">>)
sBar == PyStr(<<"bar">>)
sUtf8 == PyStr(<<"xC3A5">>)
sBadUtf8 == PyStr(<<"xFF">>)
aDate == PyDate(2014, 4, 20)
aDateTime == PyDateTime(2014, 4, 20, 12, 0, 0, 0)
aDateTimeMicro == PyDateTime(2012, 1, 1, 23, 3, 3, 12345)
sDate == PyStr(<<"2014", "-", "02", "-", "02">>)
anInner == RecordInit("Inner", [field |-> uFoo])

\* SelfReference(field=SelfReference(field=...SelfReference())), n levels deep
RECURSIVE SelfChain(_)
SelfChain(n) ==
    IF n = 0 THEN RecordInit("SelfReference", <<>>)
    ELSE RecordInit("SelfReference", [field |-> SelfChain(n - 1)])

\* NestedRecord(field={"foo": [NestedRecord(field=...)]}), n levels deep
RECURSIVE NestedChain(_)
NestedChain(n) ==
    IF n = 0 THEN RecordInit("NestedRecord", <<>>)
    ELSE RecordInit("NestedRecord",
                    [field |-> PyDict(PyStr(<<"foo">>) :> PyList(<<NestedChain(n - 1)>>))])

\* the values offered for the field fname of class cls
FieldSamples(cls, fname) ==
    CASE cls = "TextRecord" -> {uFoo, sBar, sUtf8, sBadUtf8, PyInt(100), None, NO_DEFAULT}
      [] cls = "IntegerRecord" -> {PyInt(100), PyBool(TRUE), PyFloat(1), sBar}
      [] cls = "BooleanRecord" -> {PyBool(TRUE), PyBool(FALSE), PyInt(0), PyInt(1), PyInt(2), sBar}
      [] cls = "FloatRecord" -> {PyFloat(1), PyFloat(4), PyInt(2), PyBool(TRUE)}
      [] cls = "DateRecord" -> {aDate, aDateTime, sDate}
      [] cls = "DateTimeRecord" -> {aDateTime, aDateTimeMicro, aDate}
      [] cls = "BytesRecord" -> {sBar, sUtf8, sBadUtf8, uFoo}
      [] cls = "CustomEncodedBytes" -> {sBar, sBadUtf8, uFoo}
      [] cls = "EnumRecord" ->
            {PyStr(<<"FOO">>), PyUnicode(<<"BAR">>), PyStr(<<"BAZ">>), PyBool(TRUE), PyList(<<>>)}
      [] cls = "ListRecord" ->
            {PyList(<<uFoo, PyUnicode(<<"bar">>)>>), PyList(<<>>), PyTuple(<<>>),
             PyTuple(<<PyUnicode(<<"baz">>)>>), PyList(<<sBar>>), PyList(<<PyInt(1)>>),
             PyList(<<None>>), PyList(<<NO_DEFAULT>>), EmptyDict, None}
      [] cls = "MapRecord" ->
            {PyDict(PyStr(<<"foo">>) :> PyInt(213)), PyDict(PyUnicode(<<"foo">>) :> PyInt(2)),
             EmptyDict, PyDict(PyStr(<<"foo">>) :> PyStr(<<"2">>)),
             PyDict(PyStr(<<"foo">>) :> PyInt(1) @@ PyStr(<<"bar">>) :> PyInt(2)),
             PyDict(sUtf8 :> PyInt(1)), PyList(<<>>)}
      [] cls = "Inner" -> {uFoo, sBar}
      [] cls = "SubRecordRecord" -> {anInner, RecordInit("Inner", <<>>), uFoo, SelfChain(0)}
      [] cls = "SelfReference" -> {SelfChain(n) : n \in 0..(MaxNest - 1)}
      [] cls = "NestedRecord" ->
            {NestedChain(n).v["field"] : n \in 1..MaxNest}
      [] cls = "ListSub" -> {PyList(<<anInner, RecordInit("Inner", <<>>)>>), PyTuple(<<anInner>>)}
      [] cls = "MapSub" -> {PyDict(PyUnicode(<<"foo">>) :> anInner)}
      [] cls = "ReqText" -> {uFoo}
      [] cls = "ReqInteger" -> {PyInt(100)}
      [] cls = "ReqBoolean" -> {PyBool(TRUE)}
      [] cls = "ReqFloat" -> {PyFloat(1)}
      [] cls = "ReqDate" -> {aDate}
      [] cls = "ReqDateTime" -> {aDateTime}
      [] cls = "ReqBytes" -> {sBar}
      [] cls = "ReqB64" -> {sBar}
      [] cls = "ReqEnum" -> {PyStr(<<"FOO">>)}
      [] cls = "ReqSubRecord" -> {anInner, None}
      [] cls = "ReqList" -> {PyList(<<uFoo>>), None}
      [] cls = "ReqMap" -> {PyDict(PyUnicode(<<"foo">>) :> uFoo)}
      [] cls = "NullableDefaultRecord" -> {PyUnicode(<<"x">>), None}
      [] cls = "ValidRecord" -> IF fname = "field" THEN {PyInt(8)} ELSE {aDate}

\* the keyword arguments offered to the constructor of cls
Kwargs(cls) ==
    UNION {{kw \in [S -> UNION {FieldSamples(cls, k) : k \in S}] :
                \A k \in S : kw[k] \in FieldSamples(cls, k)} : S \in SUBSET FieldNames(cls)}

\* the wire values offered under a field key of a tree handed to the loader
WireSamples(cls, fname) ==
    CASE cls = "ValidRecord" /\ fname = "field" -> {PyInt(8), PyUnicode(<<"x">>)}
      [] cls = "ValidRecord" /\ fname = "day" ->
            {PyUnicode(DateStr(aDate.v)), PyUnicode(<<"2014", "-", "13", "-", "01">>), PyInt(5)}
      [] cls \in {"MapRecord", "MapSub", "ReqMap", "NestedRecord"} ->
            {EmptyDict, PyList(<<>>), PyUnicode(<<"foo">>)}
      [] cls \in {"SubRecordRecord", "SelfReference", "ReqSubRecord"} ->
            {EmptyDict, PyDict(PyUnicode(<<"field">>) :> uFoo),
             PyDict(PyUnicode(<<SCHEMA_FIELD_NAME>>) :> uFoo), PyInt(5)}
      [] cls \in {"EnumRecord", "ReqEnum"} ->
            {PyUnicode(<<"FOO">>), PyUnicode(<<"BAZ">>), PyStr(<<"BAR">>), None, PyInt(1),
             PyList(<<>>)}
      [] OTHER -> {uFoo, PyInt(1), PyList(<<>>)}

\* the wire trees: the declared keys, each absent or with a wire sample, with
\* or without an undeclared key and a "$schema" key
WireInputs(cls) ==
    LET declared ==
            UNION {{kw \in [S -> UNION {WireSamples(cls, k) : k \in S}] :
                        \A k \in S : kw[k] \in WireSamples(cls, k)} : S \in SUBSET FieldNames(cls)}
        extras ==
            {<<>>,
             PyUnicode(<<"invalid_field">>) :> PyInt(0),
             PyUnicode(<<SCHEMA_FIELD_NAME>>) :> PyUnicode(<<"Other">>),
             PyUnicode(<<"invalid_field">>) :> PyInt(0)
                @@ PyUnicode(<<SCHEMA_FIELD_NAME>>) :> PyUnicode(<<"Other">>)}
    IN  {PyDict([k \in {PyUnicode(<<n>>) : n \in DOMAIN kw} |-> kw[k.v[1]]] @@ e) :
            kw \in declared, e \in extras}

-----------------------------------------------------------------------------
(* The serialization driver: construct an instance, dump it, load it back; or
   load a wire tree with an explicit schema. *)

\* Record(**kwargs)
Construct(kwargs) ==
    /\ pc = "new"
    /\ given' = DOMAIN kwargs
    /\ record' = RecordInit(schema, kwargs)
    /\ pc' = "built"
    /\ UNCHANGED <<classes, schema, wire, loaded, input, assigned>>
    /\ UNCHANGED <<heapVars, storeVars, otherVars>>

\* to_json_compatible(record)
Dump(ord) ==
    /\ pc = "built"
    /\ wire' = to_json_compatible(record, ord)
    /\ pc' = "dumped"
    /\ UNCHANGED <<classes, schema, given, record, loaded, input, assigned>>
    /\ UNCHANGED <<heapVars, storeVars, otherVars>>

\* load_json_dct(to_json_compatible(record), schema=R)
LoadBack(ord) ==
    /\ pc = "dumped"
    /\ ~IsRaise(wire)
    /\ input' = wire
    /\ loaded' = load_json_dct(wire, <<>>, ClassEntry(schema), ord)
    /\ pc' = "loaded"
    /\ UNCHANGED <<classes, schema, given, record, wire, assigned>>
    /\ UNCHANGED <<heapVars, storeVars, otherVars>>

\* load_json_dct(dct, schema=R) of a wire tree from elsewhere
LoadWire(dct, ord) ==
    /\ pc = "new"
    /\ input' = dct
    /\ loaded' = load_json_dct(dct, <<>>, ClassEntry(schema), ord)
    /\ pc' = "loaded"
    /\ UNCHANGED <<classes, schema, given, record, wire, assigned>>
    /\ UNCHANGED <<heapVars, storeVars, otherVars>>

\* the attribute names and the values assigned to an instance of cls
AttributeNames(cls) == FieldNames(cls) \cup {"undeclared", "_fields", "_schema_name"}
AttributeValues(cls) ==
    {None, PyInt(7)} \cup UNION {FieldSamples(cls, k) : k \in FieldNames(cls)}

\* record.name = value
SetAttr(name, value) ==
    /\ pc = "built"
    /\ record' = __setattr__(record, name, value).self
    /\ assigned' = [name |-> name, value |-> value,
                    raised |-> __setattr__(record, name, value).raised]
    /\ given' = IF __setattr__(record, name, value).raised = None
                THEN given \cup {name} ELSE given
    /\ pc' = "assigned"
    /\ UNCHANGED <<classes, schema, wire, loaded, input>>
    /\ UNCHANGED <<heapVars, storeVars, otherVars>>

\* the parts of the state a specification does not use
SerdeIdle ==
    /\ schema = Unset /\ given = {} /\ record = Unset /\ wire = Unset
    /\ loaded = Unset /\ input = Unset /\ assigned = Unset /\ pc = "idle"
HeapIdle == heap = <<>> /\ stored = <<>> /\ inst = <<>> /\ muts = 0
StoreIdle == _schema_map = <<>> /\ added = <<>> /\ result = Unset
CloneIdle == maps = <<>> /\ store = Unset /\ cloned = Unset /\ call = Unset
CmpIdle == left = Unset /\ right = Unset /\ compared = Unset
DeclIdle ==
    /\ _next_index = 0 /\ objs = <<>> /\ types = <<>> /\ auto_register = TRUE
    /\ auto_store = <<>> /\ frames = <<>>
TravIdle ==
    /\ descendants = <<>> /\ started = {} /\ ncalls = 0 /\ found = Unset
    /\ stack = <<>>
OtherIdle == CloneIdle /\ CmpIdle /\ DeclIdle /\ TravIdle

Init ==
    /\ HeapIdle
    /\ StoreIdle
    /\ OtherIdle
    /\ classes = DeclaredClasses
    /\ schema \in TypeClasses
    /\ given = {}
    /\ record = Unset
    /\ wire = Unset
    /\ loaded = Unset
    /\ input = Unset
    /\ assigned = Unset
    /\ pc = "new"

Next ==
    \/ \E kwargs \in Kwargs(schema) : Construct(kwargs)
    \/ \E ord \in Orders : Dump(ord)
    \/ \E ord \in Orders : LoadBack(ord)
    \/ \E dct \in WireInputs(schema), ord \in Orders : LoadWire(dct, ord)
    \/ \E name \in AttributeNames(schema), value \in AttributeValues(schema) :
            SetAttr(name, value)

vars ==
    <<classes, schema, given, record, wire, loaded, input, assigned, pc,
      heap, stored, inst, muts, _schema_map, added, result,
      maps, store, cloned, call, left, right, compared,
      _next_index, objs, types, auto_register, auto_store, frames,
      descendants, started, ncalls, found, stack>>

Spec == Init /\ [][Next]_vars

-----------------------------------------------------------------------------
(* Claims about the serialization round trip *)

RoundTripped == pc = "loaded" /\ wire # Unset /\ input = wire

\* a native value in the form load returns it: text as unicode (or an ASCII
\* str, which compares equal to it), a list rather than a tuple, a date that
\* is not a datetime in a Date field, a record of the declared class; and a
\* record's field is None only where the field's default_value() is None
RECURSIVE InLoadedForm(_, _)
RECURSIVE RecordInLoadedForm(_)
RecordInLoadedForm(rec) ==
    \A i \in 1..Len(_fields(rec.cls)) :
        LET f == _fields(rec.cls)[i][2]
            val == rec.v[_fields(rec.cls)[i][1]]
        IN  IF val = None THEN default_value(f) = None ELSE InLoadedForm(f, val)
InLoadedForm(f, val) ==
    CASE val = None -> f.kind \in {"Text", "Integer", "Enum"}
      [] f.kind = "Text" -> val.t = "unicode" \/ (val.t = "str" /\ IsAscii(val.v))
      [] f.kind = "Bytes" -> val.t = "str"
      [] f.kind = "Integer" -> val.t = "int"
      [] f.kind = "Boolean" -> InValueMap(val)
      [] f.kind = "Float" -> val.t = "float"
      [] f.kind = "Date" -> val.t = "date"
      [] f.kind = "DateTime" -> val.t = "datetime"
      [] f.kind = "Enum" -> IsText(val) /\ IsAscii(val.v) /\ InValues(val, f.arg.v)
      [] f.kind = "List" ->
            val.t = "list" /\ \A i \in 1..Len(val.v) : InLoadedForm(f.arg, val.v[i])
      [] f.kind = "Map" ->
            /\ val.t = "dict"
            /\ \A k \in DOMAIN val.v :
                    /\ k.t = "unicode" \/ (k.t = "str" /\ IsAscii(k.v))
                    /\ InLoadedForm(f.arg, val.v[k])
      [] f.kind = "SubRecord" ->
            val.t = "record" /\ val.cls = f.arg.v /\ RecordInLoadedForm(val)

\* C1 as stated: for every instance x of R whose field values are valid for
\* their field types (to_json_compatible(x) succeeds),
\* load_json_dct(to_json_compatible(x), schema=R) compares equal to x.
C1_RoundTripAsStated ==
    RoundTripped => loaded.t = "record" /\ PyCmp(loaded, record) = "eq"

\* C1 amended: the round trip returns an instance equal to x for every
\* instance x whose field values are in the form load returns them (and such
\* an instance is always dumped without error).
C1_RoundTrip ==
    /\ (pc \in {"dumped", "loaded"} /\ wire # Unset /\ RecordInLoadedForm(record))
            => ~IsRaise(wire)
    /\ (RoundTripped /\ RecordInLoadedForm(record))
            => loaded.t = "record" /\ loaded.cls = schema /\ PyCmp(loaded, record) = "eq"

C1_Witness ==
    /\ RoundTripped
    /\ RecordInLoadedForm(record)
    /\ schema = "NestedRecord"
    /\ record.v["field"] # EmptyDict
    /\ PyCmp(loaded, record) = "eq"

-----------------------------------------------------------------------------
\* the keys of a wire tree that are neither declared fields of cls nor the
\* reserved "$schema" key
UndeclaredKeys(cls, dct) ==
    {k \in DOMAIN dct.v : ~IsSchemaKey(k) /\ FieldOfKey(cls, k) = None}

\* C2: loading, with schema=R, a wire mapping that has at least one key that
\* is not a declared field of R (other than "$schema") raises ParseError,
\* whatever the other keys are.
C2_ClosedWorld ==
    (pc = "loaded" /\ wire = Unset /\ input.t = "dict"
        /\ UndeclaredKeys(schema, input) # {})
            => loaded = Raise("ParseError")

-----------------------------------------------------------------------------
\* the classes whose field is declared nullable=False with no explicit default
Required ==
    {"ReqText", "ReqInteger", "ReqBoolean", "ReqFloat", "ReqDate", "ReqDateTime",
     "ReqBytes", "ReqB64", "ReqEnum", "ReqSubRecord", "ReqList", "ReqMap"}

\* an instance of such a class built without a value for the field
LeftUnset == schema \in Required /\ record # Unset /\ given = {}

\* an instance of _NoDefault occurs in a wire value
RECURSIVE HasNoDefault(_)
HasNoDefault(x) ==
    CASE x.t = "_NoDefault" -> TRUE
      [] x.t \in {"list", "tuple"} -> \E i \in 1..Len(x.v) : HasNoDefault(x.v[i])
      [] x.t = "dict" -> \E k \in DOMAIN x.v : HasNoDefault(k) \/ HasNoDefault(x.v[k])
      [] OTHER -> FALSE

\* C3 as stated: for every field type, a nullable=False field with no explicit
\* default that is left unset holds NO_DEFAULT and to_json_compatible of the
\* instance raises; NO_DEFAULT is in no wire value that was produced.
\* (Holding NO_DEFAULT is read as holding an instance of _NoDefault.)
C3_NoDefaultAsStated ==
    /\ LeftUnset => record.v["field"].t = "_NoDefault"
    /\ (LeftUnset /\ wire # Unset) => IsRaise(wire)
    /\ (wire # Unset /\ ~IsRaise(wire)) => ~HasNoDefault(wire)

\* C3 amended: the same for every field type other than List and Map (a
\* SubRecord field holds a deep copy of NO_DEFAULT, another _NoDefault
\* instance); an unset List or Map field holds an empty list or dict, which
\* is dumped.  NO_DEFAULT is in no wire value that was produced.
C3_NoDefault ==
    LET f == FieldType(schema, "field")
    IN  /\ (LeftUnset /\ f.kind \notin {"List", "Map", "SubRecord"})
                => record.v["field"] = NO_DEFAULT
        /\ (LeftUnset /\ f.kind = "SubRecord") => record.v["field"] = NoDefaultCopy
        /\ (LeftUnset /\ f.kind \notin {"List", "Map"} /\ wire # Unset) => IsRaise(wire)
        /\ (LeftUnset /\ f.kind = "List") => record.v["field"] = PyList(<<>>)
        /\ (LeftUnset /\ f.kind = "Map") => record.v["field"] = EmptyDict
        /\ (LeftUnset /\ f.kind \in {"List", "Map"} /\ wire # Unset) => ~IsRaise(wire)
        /\ (wire # Unset /\ ~IsRaise(wire)) => ~HasNoDefault(wire)

C3_Witness ==
    /\ LeftUnset
    /\ schema = "ReqDateTime"
    /\ record.v["field"] = NO_DEFAULT
    /\ wire = Raise("ValueError")

-----------------------------------------------------------------------------
\* the field names that are keys of a wire tree
WireKeys(dct) == {k.v[1] : k \in {x \in DOMAIN dct.v : IsText(x) /\ Len(x.v) = 1}}

\* the wire tree of an instance has a key for a field iff the field's value
\* is not None
SparseDump ==
    (wire # Unset /\ ~IsRaise(wire))
        => /\ wire.t = "dict"
           /\ WireKeys(wire) = {k \in FieldNames(schema) : record.v[k] # None}
           /\ \A k \in DOMAIN wire.v : wire.v[k] # None

\* a loaded instance has the field's default_value() in every declared field
\* that is absent from the tree
AbsentGetsDefault ==
    (pc = "loaded" /\ ~IsRaise(loaded))
        => /\ loaded.t = "record"
           /\ \A k \in FieldNames(schema) \ WireKeys(input) :
                    loaded.v[k] = default_value(FieldType(schema, k))

\* C4 as stated: a key iff the value is not null, an absent field gets its
\* default_value(), and so a null value in a nullable field survives the
\* round trip.
C4_NullOmissionAsStated ==
    /\ SparseDump
    /\ AbsentGetsDefault
    /\ (RoundTripped /\ ~IsRaise(loaded))
            => \A k \in FieldNames(schema) :
                    (FieldType(schema, k).nullable /\ record.v[k] = None)
                        => loaded.v[k] = None

\* C4 amended: a key iff the value is not null, an absent field gets its
\* default_value(), and so a null value survives the round trip exactly in
\* the fields whose default_value() is null; in the others it comes back as
\* the default.
C4_NullOmission ==
    /\ SparseDump
    /\ AbsentGetsDefault
    /\ (RoundTripped /\ ~IsRaise(loaded))
            => \A k \in FieldNames(schema) :
                    record.v[k] = None
                        => loaded.v[k] = default_value(FieldType(schema, k))

C4_Witness ==
    /\ RoundTripped
    /\ schema = "NullableDefaultRecord"
    /\ record.v["nullable_field_with_null_default"] = None
    /\ record.v["field_with_default"] # None
    /\ WireKeys(wire) = {"field_with_default"}
    /\ loaded.t = "record"
    /\ loaded.v["nullable_field_with_null_default"] = None
    /\ loaded.v["nullable_field_with_other_default"] = PyUnicode(<<"my_other_default">>)

-----------------------------------------------------------------------------
(* Default values as objects.  A list or dict is an object of the heap, named
   by a reference; an item of a list is a text value or a reference.  The
   fields are the Map and List fields of test/avro_tests.py:144-145, a second
   List field declared with the default arguments, and a List of Lists with
   an explicit default. *)

MaxInstances == 2
MaxMutations == 3
MaxItems == 2

Ref(n) == [t |-> "ref", v |-> n]
IsRef(x) == x.t = "ref"

FieldOrder ==
    <<"map_default_field", "list_default_field", "other_list_field", "nested_default_field">>

DefaultFields ==
    [map_default_field |-> MapOf(TextF),
     list_default_field |-> ListOf(Text(FALSE, _UNTOUCHED)),
     other_list_field |-> ListOf(TextF),
     nested_default_field |-> List(ListOf(TextF), FALSE, PyList(<<PyList(<<uFoo>>)>>))]

\* the objects that exist once the class statement has run: 1 is the [] of
\* List.__init__'s default argument (types.py:99), one object for every List
\* declared without a default; 2 the {} of Map.__init__'s (types.py:313);
\* 4 the explicit default [[u"foo"]] and 3 its inner list
DeclaredHeap ==
    <<PyList(<<>>), EmptyDict, PyList(<<uFoo>>), PyList(<<Ref(3)>>)>>
DeclaredDefaults ==
    [map_default_field |-> 2, list_default_field |-> 1, other_list_field |-> 1,
     nested_default_field |-> 4]

\* the value of the object at reference r
RECURSIVE Deref(_, _)
Deref(h, r) ==
    IF h[r].t = "list"
    THEN PyList([i \in 1..Len(h[r].v) |->
                    IF IsRef(h[r].v[i]) THEN Deref(h, h[r].v[i].v) ELSE h[r].v[i]])
    ELSE h[r]

\* the references of the objects reachable from the object at r, r included
RECURSIVE Reach(_, _)
Reach(h, r) ==
    {r} \cup (IF h[r].t = "list"
              THEN UNION {Reach(h, h[r].v[i].v) : i \in {j \in 1..Len(h[r].v) : IsRef(h[r].v[j])}}
              ELSE {})

\* copy.deepcopy of the object at r: <<the heap with the copies, the
\* reference of the copy>>
RECURSIVE HeapCopy(_, _)
HeapCopy(h, r) ==
    IF h[r].t = "list"
    THEN LET items == h[r].v
             step[i \in 0..Len(items)] ==
                IF i = 0 THEN <<h, <<>>>>
                ELSE IF IsRef(items[i])
                     THEN LET c == HeapCopy(step[i - 1][1], items[i].v)
                          IN  <<c[1], Append(step[i - 1][2], Ref(c[2]))>>
                     ELSE <<step[i - 1][1], Append(step[i - 1][2], items[i])>>
             done == step[Len(items)]
         IN  <<Append(done[1], PyList(done[2])), Len(done[1]) + 1>>
    ELSE <<Append(h, h[r]), Len(h) + 1>>

\* types.py:116-118, 338-340 and core.py:308-309 default_value(), on objects
default_value_ref(h, f, r) == IF CopiesDefault(f) THEN HeapCopy(h, r) ELSE <<h, r>>

\* core.py:443-456 Record.__init__(), no keyword given: <<heap, references
\* of the values of the first n fields>>
RECURSIVE InitFields(_, _)
InitFields(h, n) ==
    IF n = 0 THEN <<h, <<>>>>
    ELSE LET p == InitFields(h, n - 1)
             c == default_value_ref(p[1], DefaultFields[FieldOrder[n]], stored[FieldOrder[n]])
         IN  <<c[1], Append(p[2], c[2])>>

Instances == 1..MaxInstances
Built(i) == inst[i] # Unset
\* the objects of instance i: its containers and what they hold
Owned(i) == UNION {Reach(heap, inst[i][k]) : k \in DOMAIN inst[i]}
FieldIndex(k) == CHOOSE n \in 1..Len(FieldOrder) : FieldOrder[n] = k

\* a = NullableDefaultRecord()
New(i) ==
    /\ ~Built(i)
    /\ LET done == InitFields(heap, Len(FieldOrder))
       IN  /\ heap' = done[1]
           /\ inst' = [inst EXCEPT ![i] =
                            [k \in DOMAIN DefaultFields |-> done[2][FieldIndex(k)]]]
    /\ UNCHANGED <<stored, muts>>
    /\ UNCHANGED <<classes, serdeVars, storeVars, otherVars>>

\* a.list_default_field.append(x), a.nested_default_field[0].append(x)
ListAppend(i, r, x) ==
    /\ Built(i) /\ r \in Owned(i) /\ heap[r].t = "list"
    /\ muts < MaxMutations /\ Len(heap[r].v) < MaxItems
    /\ heap' = [heap EXCEPT ![r].v = Append(@, x)]
    /\ muts' = muts + 1
    /\ UNCHANGED <<stored, inst>>
    /\ UNCHANGED <<classes, serdeVars, storeVars, otherVars>>

\* a.list_default_field.pop()
ListPop(i, r) ==
    /\ Built(i) /\ r \in Owned(i) /\ heap[r].t = "list"
    /\ muts < MaxMutations /\ Len(heap[r].v) > 0
    /\ heap' = [heap EXCEPT ![r].v = SubSeq(@, 1, Len(@) - 1)]
    /\ muts' = muts + 1
    /\ UNCHANGED <<stored, inst>>
    /\ UNCHANGED <<classes, serdeVars, storeVars, otherVars>>

\* a.map_default_field[k] = x
DictSetItem(i, r, k, x) ==
    /\ Built(i) /\ r \in Owned(i) /\ heap[r].t = "dict"
    /\ muts < MaxMutations
    /\ heap' = [heap EXCEPT ![r].v = [j \in DOMAIN @ \cup {k} |-> IF j = k THEN x ELSE @[j]]]
    /\ muts' = muts + 1
    /\ UNCHANGED <<stored, inst>>
    /\ UNCHANGED <<classes, serdeVars, storeVars, otherVars>>

\* del a.map_default_field[k]
DictDelItem(i, r, k) ==
    /\ Built(i) /\ r \in Owned(i) /\ heap[r].t = "dict"
    /\ muts < MaxMutations /\ k \in DOMAIN heap[r].v
    /\ heap' = [heap EXCEPT ![r].v = [j \in DOMAIN @ \ {k} |-> @[j]]]
    /\ muts' = muts + 1
    /\ UNCHANGED <<stored, inst>>
    /\ UNCHANGED <<classes, serdeVars, storeVars, otherVars>>

InitDefaults ==
    /\ SerdeIdle
    /\ StoreIdle
    /\ OtherIdle
    /\ classes = DeclaredClasses
    /\ heap = DeclaredHeap
    /\ stored = DeclaredDefaults
    /\ inst = [i \in Instances |-> Unset]
    /\ muts = 0

Objects == 1..Len(heap)

NextDefaults ==
    \/ \E i \in Instances : New(i)
    \/ \E i \in Instances, r \in Objects : ListAppend(i, r, uFoo)
    \/ \E i \in Instances, r \in Objects : ListPop(i, r)
    \/ \E i \in Instances, r \in Objects : DictSetItem(i, r, PyStr(<<"something">>), sBar)
    \/ \E i \in Instances, r \in Objects : DictDelItem(i, r, PyStr(<<"something">>))

SpecDefaults == InitDefaults /\ [][NextDefaults]_vars

-----------------------------------------------------------------------------
\* a step that mutates a container of instance i
MutationOf(i) == Built(i) /\ muts' = muts + 1 /\ \E r \in Owned(i) : heap'[r] # heap[r]

\* C5: two instances built without a value for a List or Map field hold
\* distinct containers, distinct from the field type's stored default; a
\* mutation of a container of one instance leaves the value of every field
\* of the other instance and every stored default unchanged.
C5_DefaultIsolation ==
    [][\A i \in Instances :
          /\ Built(i) => \A k \in DOMAIN stored : stored[k] \notin Owned(i)
          /\ \A j \in Instances \ {i} : (Built(i) /\ Built(j)) => Owned(i) \cap Owned(j) = {}
          /\ MutationOf(i) =>
                /\ \A k \in DOMAIN stored : Deref(heap', stored[k]) = Deref(heap, stored[k])
                /\ \A j \in Instances \ {i} :
                        Built(j) => \A k \in DOMAIN inst[j] :
                                        Deref(heap', inst[j][k]) = Deref(heap, inst[j][k])]_vars

C5_Witness ==
    /\ Built(1) /\ Built(2)
    /\ Deref(heap, inst[1]["list_default_field"]) = PyList(<<uFoo>>)
    /\ Deref(heap, inst[1]["map_default_field"]) = PyDict(PyStr(<<"something">>) :> sBar)
    /\ Deref(heap, inst[1]["nested_default_field"]) = PyList(<<PyList(<<uFoo, uFoo>>)>>)
    /\ Deref(heap, inst[2]["list_default_field"]) = PyList(<<>>)
    /\ Deref(heap, inst[2]["map_default_field"]) = EmptyDict
    /\ Deref(heap, inst[2]["nested_default_field"]) = PyList(<<PyList(<<uFoo>>)>>)
    /\ Deref(heap, stored["list_default_field"]) = PyList(<<>>)

-----------------------------------------------------------------------------
(* A SchemaStore: classes are added to it, names are looked up in it, and
   tagged data is loaded through it. *)

MaxAdds == 3

\* the names looked up and the names data is tagged with
LookupNames ==
    {<<"TestRecord">>,
     <<"my", ".", "namespace", ".", "TestRecord">>,
     <<"ns2", ".", "TestRecord">>,
     <<"legacy", ".", "TestRecord">>,
     <<"any", ".", "namespace", ".", "should", ".", "work", ".", "TestRecord">>,
     <<"OtherRecord">>,
     <<"my", ".", "namespace", ".", "OtherRecord">>}

\* the trees handed to load_json_dct: no "$schema" key, one with a name, one
\* with a number; no field key, the declared one, an undeclared one, both
TaggedTrees ==
    LET tags == {<<>>, PyUnicode(<<SCHEMA_FIELD_NAME>>) :> PyInt(5)}
                    \cup {PyUnicode(<<SCHEMA_FIELD_NAME>>) :> PyUnicode(n) : n \in LookupNames}
        bodies == {<<>>,
                   PyUnicode(<<"a">>) :> PyUnicode(<<"test">>),
                   PyUnicode(<<"invalid_field">>) :> PyInt(0),
                   PyUnicode(<<"a">>) :> PyUnicode(<<"test">>)
                        @@ PyUnicode(<<"invalid_field">>) :> PyInt(0)}
    IN  {PyDict(tg @@ b) : tg \in tags, b \in bodies}

\* the strings handed to loads
Payloads ==
    {JsonText(tree) : tree \in TaggedTrees}
        \cup {JsonText(PyList(<<>>)), PyStr(<<"not json">>), PyStr(<<"{", "not json">>)}

\* the iteration orders of a tree with the keys "a" and "invalid_field"
StoreOrders == {o \in Orders : o[2] = 2}

Outcome(op, arg, out) == [op |-> op, arg |-> arg, out |-> out]

\* the driver looks a name up or loads data once after each change of the
\* store: a lookup leaves the store as it is, and a second one would see
\* what the first could
Changed == result.op \in {"SchemaStore", "add_record", "clear"}

\* store.add_record(cls)
AddRecord(cls) ==
    /\ Len(added) < MaxAdds
    /\ _schema_map' = add_record(_schema_map, cls).map
    /\ added' = Append(added, cls)
    /\ result' = Outcome("add_record", cls, add_record(_schema_map, cls).out)
    /\ UNCHANGED <<classes, serdeVars, heapVars, otherVars>>

\* store.get(record_name)
Get(record_name) ==
    /\ Changed
    /\ result' = Outcome("get", record_name, get(_schema_map, record_name))
    /\ UNCHANGED <<classes, serdeVars, heapVars, otherVars, _schema_map, added>>

\* store.clear()
Clear ==
    /\ added # <<>>
    /\ _schema_map' = <<>>
    /\ added' = <<>>
    /\ result' = Outcome("clear", None, None)
    /\ UNCHANGED <<classes, serdeVars, heapVars, otherVars>>

\* load_json_dct(dct, record_store=store)
LoadJsonDct(dct, ord) ==
    /\ Changed
    /\ result' = Outcome("load_json_dct", dct, load_json_dct(dct, _schema_map, None, ord))
    /\ UNCHANGED <<classes, serdeVars, heapVars, otherVars, _schema_map, added>>

\* loads(s, record_store=store)
Loads(s, ord) ==
    /\ Changed
    /\ result' = Outcome("loads", s, loads(s, _schema_map, None, ord))
    /\ UNCHANGED <<classes, serdeVars, heapVars, otherVars, _schema_map, added>>

\* x = cls(**kwargs); loads(dumps(x), record_store=store)
DumpsLoads(cls, kwargs, ord) ==
    /\ Changed
    /\ result' = Outcome("dumps_loads", RecordInit(cls, kwargs),
                         loads(dumps(RecordInit(cls, kwargs), ord), _schema_map, None, ord))
    /\ UNCHANGED <<classes, serdeVars, heapVars, otherVars, _schema_map, added>>

InitStore ==
    /\ SerdeIdle
    /\ HeapIdle
    /\ OtherIdle
    /\ classes = DeclaredClasses
    /\ _schema_map = <<>>
    /\ added = <<>>
    /\ result = Outcome("SchemaStore", None, None)

NextStore ==
    \/ \E cls \in StoreClasses \cup RedefinedClasses : AddRecord(cls)
    \/ \E record_name \in LookupNames \cup {<<"TestRecord", ".">>} : Get(record_name)
    \/ Clear
    \/ \E dct \in TaggedTrees, ord \in StoreOrders : LoadJsonDct(dct, ord)
    \/ \E s \in Payloads, ord \in StoreOrders : Loads(s, ord)
    \/ \E cls \in StoreClasses, kwargs \in {<<>>, [a |-> PyStr(<<"test">>)]}, ord \in StoreOrders :
            DumpsLoads(cls, kwargs, ord)

SpecStore == InitStore /\ [][NextStore]_vars

-----------------------------------------------------------------------------
\* the tree of the data last loaded through the store, when it is a JSON
\* object, and the value under its "$schema" key
LoadedTree == IF result.op = "loads" THEN result.arg.v ELSE result.arg
IsLoad == \/ result.op = "load_json_dct"
          \/ result.op = "loads" /\ result.arg.t = "jsontext" /\ result.arg.v.t = "dict"
HasTag == \E k \in DOMAIN LoadedTree.v : IsSchemaKey(k)
Tag == LoadedTree.v[CHOOSE k \in DOMAIN LoadedTree.v : IsSchemaKey(k)]

\* a name that is no key of the store, and whose last segment is none either
Unresolvable(name) ==
    /\ name \notin DOMAIN _schema_map
    /\ \A n \in DOMAIN _schema_map :
            ~(Len(n) <= Len(name) /\ SubSeq(name, Len(name) - Len(n) + 1, Len(name)) = n
                /\ ~HasTok(n, ".")
                /\ (Len(n) = Len(name) \/ name[Len(name) - Len(n)] = "."))

Bare == "TestRecord"
Namespaced == StoreClasses \ {Bare}

\* C7: after a namespaced class N and the non-namespaced class B of the same
\* name were added to a fresh store, in either order, get of the bare name
\* returns B, get of N's full name returns N, and loads(dumps(x)) through the
\* store returns an instance of x's class for an instance x of either.
C7_BothOrders ==
    \A N \in Namespaced :
        added \in {<<N, Bare>>, <<Bare, N>>} =>
            /\ (result.op = "get" /\ result.arg = <<classes[Bare].__name__>>)
                    => result.out = ClassEntry(Bare)
            /\ (result.op = "get" /\ result.arg = get_full_name(N))
                    => result.out = ClassEntry(N)
            /\ (result.op = "dumps_loads" /\ result.arg.cls \in {N, Bare})
                    => result.out.t = "record" /\ result.out.cls = result.arg.cls

C7_Witness ==
    /\ added = <<Bare, "NamespacedTestRecord">>
    /\ result.op = "dumps_loads"
    /\ result.arg.cls = "NamespacedTestRecord"
    /\ result.arg.v["a"] # None
    /\ result.out.t = "record"
    /\ result.out.cls = "NamespacedTestRecord"

\* a step that adds the namespaced class cls while the bare-name slot holds
\* another class, of another full name
CollidingAdd(cls) ==
    /\ added' = Append(added, cls)
    /\ has_namespace(cls)
    /\ <<classes[cls].__name__>> \in DOMAIN _schema_map
    /\ _schema_map[<<classes[cls].__name__>>].t = "class"
    /\ _schema_map[<<classes[cls].__name__>>] # ClassEntry(cls)
    /\ get_full_name(_schema_map[<<classes[cls].__name__>>].v) # get_full_name(cls)

Duplicated(n) ==
    \E i, j \in 1..Len(added) :
        added[i] # added[j] /\ get_full_name(added[i]) = n /\ get_full_name(added[j]) = n

\* C9: after two different classes of the same namespace-qualified full name
\* were added, loads of data tagged with that name raises a ValueError,
\* whatever the payload, a payload with no field keys included.
C9_DuplicatedSchema ==
    (IsLoad /\ HasTag /\ IsText(Tag) /\ HasTok(Tag.v, ".") /\ Duplicated(Tag.v))
        => result.out = Raise("ValueError")

\* C10: add_record never raises and always leaves an entry under the full
\* name of the class; a lookup of a conflicting name does not raise either
\* (get raises only KeyError, for a name that resolves to nothing), the
\* error comes when the placeholder left by two classes of one namespaced
\* full name is used to load data.
C10_LazyConflict ==
    /\ result.op = "add_record" =>
            /\ result.out = ClassEntry(result.arg)
            /\ get_full_name(result.arg) \in DOMAIN _schema_map
    /\ (result.op = "get" /\ IsRaise(result.out)) =>
            /\ result.out = Raise("KeyError")
            /\ Unresolvable(result.arg)
    /\ (IsLoad /\ HasTag /\ IsText(Tag) /\ HasTok(Tag.v, ".") /\ Duplicated(Tag.v))
            => IsRaise(result.out)

C10_Witness ==
    /\ result.op = "add_record"
    /\ result.arg = "NamespacedTestRecord"
    /\ added = <<"DuplicatedTestRecord", "OtherNamespaceTestRecord", "NamespacedTestRecord">>
    /\ result.out = ClassEntry("NamespacedTestRecord")
    /\ _schema_map[get_full_name("NamespacedTestRecord")] = InvalidSchemaSpecification

-----------------------------------------------------------------------------
\* the last token of a looked-up name when it is a name segment, and the
\* empty name when the name ends with a dot
LastName(name) == IF name[Len(name)] = "." THEN <<>> ELSE <<name[Len(name)]>>

\* C11: get(name) returns the entry stored under name when name is a key of
\* the store, and otherwise the entry stored under the last dot-separated
\* segment of name; it raises KeyError exactly when neither is a key.  A
\* store holding one class, namespaced or not, resolves every name whose last
\* segment is the name of that class to it.
C11_GetResolution ==
    result.op = "get" =>
        /\ result.arg \in DOMAIN _schema_map => result.out = _schema_map[result.arg]
        /\ (result.arg \notin DOMAIN _schema_map /\ LastName(result.arg) \in DOMAIN _schema_map)
                => result.out = _schema_map[LastName(result.arg)]
        /\ result.out = Raise("KeyError")
                <=> (result.arg \notin DOMAIN _schema_map
                        /\ LastName(result.arg) \notin DOMAIN _schema_map)
        /\ (Len(added) = 1 /\ LastName(result.arg) = <<classes[added[1]].__name__>>)
                => result.out = ClassEntry(added[1])

C11_Witness ==
    /\ added = <<"NamespacedTestRecord">>
    /\ result.op = "get"
    /\ result.arg = <<"any", ".", "namespace", ".", "should", ".", "work", ".", "TestRecord">>
    /\ result.arg \notin DOMAIN _schema_map
    /\ result.out = ClassEntry("NamespacedTestRecord")

-----------------------------------------------------------------------------
(* Two SchemaStores, one the clone of the other.  A store holds references
   of its two dicts, so that a copy and an alias of a dict differ; the
   entries of the dicts are classes and the value sets of enums, which no
   operation of a store changes. *)

MaxCalls == 4

\* core.py:109-125 add_enum: the _enum_map afterwards; an enum with no name
\* is not stored
EnumDefinition(name, values) == [name |-> name, values |-> [t |-> "set", v |-> values]]

add_enum(enum_map, enum_definition) ==
    IF enum_definition.name = None THEN enum_map
    ELSE [n \in DOMAIN enum_map \cup {enum_definition.name} |->
            IF n = enum_definition.name THEN enum_definition.values ELSE enum_map[n]]

\* core.py:166-167 get_enum
get_enum(enum_map, name) ==
    IF name \in DOMAIN enum_map THEN enum_map[name] ELSE Raise("KeyError")

\* core.py:180-186 has_schema
has_schema(map, name) ==
    IF name \in DOMAIN map THEN TRUE
    ELSE IF HasTok(name, ".") THEN LastSegment(name) \in DOMAIN map
    ELSE FALSE

\* dict.copy(): a new dict object with the same entries
dict_copy_Alias(h, ref) == [heap |-> h, ref |-> ref]

dict_copy(h, ref) == [heap |-> Append(h, h[ref]), ref |-> Len(h) + 1]

\* core.py:173-178 clone: the heap afterwards and the new store
clone(h, self) ==
    LET schemas == dict_copy(h, self._schema_map)
        enums == dict_copy(schemas.heap, self._enum_map)
    IN  [heap |-> enums.heap,
         r |-> [_schema_map |-> schemas.ref, _enum_map |-> enums.ref]]

\* the classes and enums added to the two stores, and the names queried
CloneClasses == {"TestRecord", "NamespacedTestRecord", "DuplicatedTestRecord"}
EnumDefinitions ==
    {EnumDefinition(PyStr(<<"E">>), {"FOO", "BAR"}), EnumDefinition(PyStr(<<"E">>), {"FOO"}),
     EnumDefinition(PyStr(<<"F">>), {"BAZ"}), EnumDefinition(None, {"FOO"})}
QueryNames ==
    {<<"TestRecord">>, <<"my", ".", "namespace", ".", "TestRecord">>,
     <<"ns2", ".", "TestRecord">>, <<"OtherRecord">>}
EnumNames == {PyStr(<<"E">>), PyStr(<<"F">>), PyStr(<<"G">>)}

\* the store a call is made on
Stores == {"store", "cloned"}
Target(on) == IF on = "store" THEN store ELSE cloned
Called(op, on, arg) ==
    [op |-> op, on |-> on, arg |-> arg, n |-> IF call = Unset THEN 1 ELSE call.n + 1]
CanCall(on) ==
    /\ call # Unset => call.n < MaxCalls
    /\ Target(on) # None

\* on.add_record(cls)
CloneAddRecord(on, cls) ==
    /\ CanCall(on)
    /\ maps' = [maps EXCEPT ![Target(on)._schema_map] = add_record(@, cls).map]
    /\ call' = Called("add_record", on, cls)
    /\ UNCHANGED <<classes, serdeVars, heapVars, storeVars, cmpVars, declVars, travVars, store, cloned>>

\* on.add_enum(enum_definition)
CloneAddEnum(on, enum_definition) ==
    /\ CanCall(on)
    /\ maps' = [maps EXCEPT ![Target(on)._enum_map] = add_enum(@, enum_definition)]
    /\ call' = Called("add_enum", on, enum_definition)
    /\ UNCHANGED <<classes, serdeVars, heapVars, storeVars, cmpVars, declVars, travVars, store, cloned>>

\* on.clear(), core.py:169-171: both dicts are emptied in place
CloneClear(on) ==
    /\ CanCall(on)
    /\ maps' = [maps EXCEPT ![Target(on)._schema_map] = <<>>,
                            ![Target(on)._enum_map] = <<>>]
    /\ call' = Called("clear", on, None)
    /\ UNCHANGED <<classes, serdeVars, heapVars, storeVars, cmpVars, declVars, travVars, store, cloned>>

\* cloned = store.clone()
Clone ==
    /\ CanCall("store")
    /\ cloned = None
    /\ maps' = clone(maps, store).heap
    /\ cloned' = clone(maps, store).r
    /\ call' = Called("clone", "store", None)
    /\ UNCHANGED <<classes, serdeVars, heapVars, storeVars, cmpVars, declVars, travVars, store>>

\* core.py:90-92 SchemaStore(): two empty dicts
InitClone ==
    /\ SerdeIdle
    /\ HeapIdle
    /\ StoreIdle
    /\ CmpIdle
    /\ DeclIdle
    /\ TravIdle
    /\ classes = DeclaredClasses
    /\ maps = <<<<>>, <<>>>>
    /\ store = [_schema_map |-> 1, _enum_map |-> 2]
    /\ cloned = None
    /\ call = Unset

NextClone ==
    \/ \E on \in Stores, cls \in CloneClasses : CloneAddRecord(on, cls)
    \/ \E on \in Stores, enum_definition \in EnumDefinitions : CloneAddEnum(on, enum_definition)
    \/ \E on \in Stores : CloneClear(on)
    \/ Clone

SpecClone == InitClone /\ [][NextClone]_vars

-----------------------------------------------------------------------------
\* the result of every get, get_enum and has_schema query on a store
Queries(h, self) ==
    [get |-> [n \in QueryNames |-> get(h[self._schema_map], n)],
     get_enum |-> [n \in EnumNames |-> get_enum(h[self._enum_map], n)],
     has_schema |-> [n \in QueryNames |-> has_schema(h[self._schema_map], n)]]

\* C12: right after cloned = store.clone() both stores answer every get,
\* get_enum and has_schema query alike; from then on an add_record, add_enum
\* or clear on one of the two stores leaves every answer of the other as it
\* was.
C12_CloneIsolation ==
    [][/\ call'.op = "clone" => Queries(maps', cloned') = Queries(maps', store')
       /\ (cloned # None /\ call'.on = "cloned")
            => Queries(maps', store') = Queries(maps, store)
       /\ (cloned # None /\ call'.on = "store")
            => Queries(maps', cloned') = Queries(maps, cloned)]_vars

C12_Witness ==
    /\ cloned # None
    /\ call.op = "clear"
    /\ call.on = "cloned"
    /\ Queries(maps, store).get[<<"TestRecord">>] = ClassEntry("NamespacedTestRecord")
    /\ Queries(maps, store).get_enum[PyStr(<<"E">>)] = [t |-> "set", v |-> {"FOO", "BAR"}]
    /\ Queries(maps, cloned).get[<<"TestRecord">>] = Raise("KeyError")
    /\ ~Queries(maps, cloned).has_schema[<<"my", ".", "namespace", ".", "TestRecord">>]

-----------------------------------------------------------------------------
\* C13: assigning to an attribute name that is no field of the record type
\* raises AttributeError and leaves every field value of the instance as it
\* was; assigning to a declared field name raises nothing, gives that field
\* the assigned value and leaves every other field as it was.
C13_AttributeDiscipline ==
    [][pc' = "assigned" =>
        /\ assigned'.name \notin FieldNames(schema) =>
                /\ assigned'.raised = Raise("AttributeError")
                /\ record' = record
        /\ assigned'.name \in FieldNames(schema) =>
                /\ assigned'.raised = None
                /\ record'.cls = record.cls
                /\ DOMAIN record'.v = DOMAIN record.v
                /\ record'.v[assigned'.name] = assigned'.value
                /\ \A k \in DOMAIN record.v \ {assigned'.name} : record'.v[k] = record.v[k]]_vars

C13_Witness ==
    /\ pc = "assigned"
    /\ schema = "ValidRecord"
    /\ assigned.name = "undeclared"
    /\ assigned.value = PyInt(7)
    /\ assigned.raised = Raise("AttributeError")
    /\ record.v["field"] = PyInt(8)
    /\ DOMAIN record.v = FieldNames(schema)

-----------------------------------------------------------------------------
(* Comparison of a record instance with another value: left == right and
   left != right.  Every instance compared lies at an address, which is what
   id() returns; the numbers compared with it range over the addresses. *)

MaxAddress == 2

Addresses == 1..MaxAddress

\* the instance rec at the address n
At(rec, n) == [t |-> "record", cls |-> rec.cls, v |-> rec.v, id |-> n]

\* the instances compared: every instance the constructor gives for these
\* classes of the type tests, instances of two classes named TestRecord, and
\* instances holding a sub-record or a number where the other holds the other
CmpClasses ==
    {"TextRecord", "IntegerRecord", "DateRecord", "Inner", "SubRecordRecord", "ValidRecord"}
CmpRecords ==
    UNION {{RecordInit(cls, kwargs) : kwargs \in Kwargs(cls)} : cls \in CmpClasses}
        \cup {RecordInit(cls, kwargs) :
                cls \in {"TestRecord", "NamespacedTestRecord"},
                kwargs \in {<<>>, [a |-> uFoo]}}
        \cup {RecordInit("SubRecordRecord", [field |-> x]) :
                x \in {At(anInner, 1), PyInt(1), aDate}}
        \cup {RecordInit(cls, kwargs) :
                cls \in WiderClasses,
                kwargs \in {<<>>, [a |-> uFoo], [a |-> uFoo, b |-> uFoo]}}

\* the values compared with an instance that are no Record: None, an
\* instance of an old-style class, numbers, text, dates and containers
NonRecords ==
    {None, NO_DEFAULT, PyBool(TRUE), uFoo, sBar, aDate, aDateTime, PyList(<<>>), EmptyDict}
        \cup {PyInt(n) : n \in 0..MaxAddress}
        \cup {PyFloat(2 * n) : n \in Addresses}
        \cup {PyFloat(1)}

\* left == right; left != right; for two instances also right == left
Compare ==
    /\ compared = Unset
    /\ compared' = [eq |-> __eq__(left, right), ne |-> __ne__(left, right),
                    back |-> IF right.t = "record" THEN __eq__(right, left) ELSE Unset]
    /\ UNCHANGED <<classes, serdeVars, heapVars, storeVars, cloneVars, declVars, travVars, left, right>>

InitCmp ==
    /\ SerdeIdle
    /\ HeapIdle
    /\ StoreIdle
    /\ CloneIdle
    /\ DeclIdle
    /\ TravIdle
    /\ classes = DeclaredClasses
    /\ left \in {At(rec, n) : rec \in CmpRecords, n \in Addresses}
    /\ right \in {At(rec, MaxAddress + 1) : rec \in CmpRecords} \cup NonRecords
    /\ compared = Unset

NextCmp == Compare

SpecCmp == InitCmp /\ [][NextCmp]_vars

-----------------------------------------------------------------------------
\* the schema names of two instances match and the values of all fields of
\* the first compare equal to those of the second
SameSchemaName(a, b) == _schema_name(a.cls) = _schema_name(b.cls)
AllFieldsEqual(a, b) ==
    \A k \in FieldNames(a.cls) : k \in DOMAIN b.v /\ PyCmp(a.v[k], b.v[k]) = "eq"

\* C14: for two record instances a and b, a == b is True if and only if
\* their schema names match and the values of all fields compare equal, and
\* is False otherwise; a != b is the negation of a == b.
C14_StructuralEquality ==
    (compared # Unset /\ right.t = "record") =>
        /\ compared.eq = PyBool(SameSchemaName(left, right) /\ AllFieldsEqual(left, right))
        /\ compared.ne = PyBool(~(SameSchemaName(left, right) /\ AllFieldsEqual(left, right)))

\* C15: a record instance never compares equal to a value that is no record
\* instance: r == v is False for None, an arbitrary object, a number.
C15_NeverEqualsNonRecord ==
    (compared # Unset /\ right.t # "record") => compared.eq = PyBool(FALSE)

\* C28: for two record instances a and b, a == b and b == a both give a
\* bool, and the same one, also when the classes of a and b share a schema
\* name and declare different fields.
C28_EqualitySymmetric ==
    (compared # Unset /\ right.t = "record") =>
        /\ compared.eq.t = "bool"
        /\ compared.back = compared.eq

-----------------------------------------------------------------------------
(* Declaration.  Field objects are constructed and class statements are
   executed, some of them decorated with @no_auto_store() and some nested in
   the body of another.  A Field object is held by reference: a class and
   the classes derived from it share the Field objects of the inherited
   fields.  classes holds, as in the other specifications, the attributes of
   the classes created so far with the field objects as they are now. *)

MaxFields == 3
MaxClasses == 2
MaxStatements == 3

\* the names of the classes declared, in the order of their class statements,
\* and the attribute names a class body binds Field objects to
DeclIds == <<"A", "B", "C", "D">>
DeclNames == {"a", "b", "c"}

\* core.py:228-241 Field.__init__, types.py:269-271 SubRecord.__init__,
\* 99-101 List.__init__, 313-316 Map.__init__: the new Field object; sch is
\* the schema argument of a SubRecord, field_type the reference of the element
\* type of a List or Map
FieldObject(kind, index, sch, field_type) ==
    [kind |-> kind,
     _index |-> index,
     schema_arg |-> IF kind = "SubRecord" THEN sch ELSE SELF,
     _schema |-> IF kind = "SubRecord" THEN sch ELSE SELF,
     field_type |-> IF kind \in {"List", "Map"} THEN field_type ELSE 0]

\* the Field object as the field type the dumper and the loader work with
RECURSIVE Resolve(_, _)
Resolve(h, ref) ==
    CASE h[ref].kind = "Text" -> TextF
      [] h[ref].kind = "SubRecord" -> SubRecord(h[ref]._schema, TRUE, _UNTOUCHED)
      [] h[ref].kind = "List" -> ListOf(Resolve(h, h[ref].field_type))
      [] h[ref].kind = "Map" -> MapOf(Resolve(h, h[ref].field_type))

\* types.py:282-290 SubRecord.set_parent, 113-114 List.set_parent, 335-336
\* Map.set_parent, core.py:258-261 Field.set_parent: the heap afterwards
RECURSIVE set_parent_obj(_, _, _)
set_parent_obj(h, ref, schema_cls) ==
    CASE h[ref].kind = "SubRecord" ->
            IF h[ref]._schema = SELF THEN [h EXCEPT ![ref]._schema = schema_cls] ELSE h
      [] h[ref].kind \in {"List", "Map"} -> set_parent_obj(h, h[ref].field_type, schema_cls)
      [] OTHER -> h

\* core.py:341-342 for field_name, field in cls._fields.iteritems():
\* field.set_parent(cls)
RECURSIVE SetParents(_, _, _)
SetParents(h, fields, schema_cls) ==
    IF fields = <<>> THEN h
    ELSE SetParents(set_parent_obj(h, fields[1][2], schema_cls), Tail(fields), schema_cls)

\* OrderedDict.update and item assignment: a key that is there keeps its
\* place and gets the new value, a new key goes to the end
RECURSIVE OrderedDictUpdate(_, _)
OrderedDictUpdate(od, items) ==
    IF items = <<>> THEN od
    ELSE LET at == {i \in 1..Len(od) : od[i][1] = items[1][1]}
         IN  OrderedDictUpdate(
                IF at = {} THEN Append(od, items[1])
                ELSE [i \in 1..Len(od) |-> IF i \in at THEN items[1] ELSE od[i]],
                Tail(items))

\* core.py:372-377 new_fields.sort(key=lambda fd: fd[1]._index): the Field
\* attributes of the class body dct, a function from names to references
RECURSIVE new_fields_Reversed(_, _)
new_fields_Reversed(h, dct) ==
    IF DOMAIN dct = {} THEN <<>>
    ELSE LET k == CHOOSE n \in DOMAIN dct :
                    \A m \in DOMAIN dct : h[dct[n]]._index >= h[dct[m]]._index
         IN  << <<k, dct[k]>> >> \o new_fields_Reversed(h, [n \in DOMAIN dct \ {k} |-> dct[n]])

RECURSIVE new_fields(_, _)
new_fields(h, dct) ==
    IF DOMAIN dct = {} THEN <<>>
    ELSE LET k == CHOOSE n \in DOMAIN dct :
                    \A m \in DOMAIN dct : h[dct[n]]._index <= h[dct[m]]._index
         IN  << <<k, dct[k]>> >> \o new_fields(h, [n \in DOMAIN dct \ {k} |-> dct[n]])

\* core.py:362-369 the fields of the bases, base by base
RECURSIVE BaseFields(_, _)
BaseFields(tys, bases) ==
    IF bases = <<>> THEN <<>>
    ELSE OrderedDictUpdate(BaseFields(tys, SubSeq(bases, 1, Len(bases) - 1)),
                           tys[bases[Len(bases)]]._fields)

\* core.py:359-385 _get_schema_attributes: _fields, as name and reference
_get_schema_attributes(tys, h, bases, dct) ==
    OrderedDictUpdate(BaseFields(tys, bases), new_fields(h, dct))

\* core.py:430-432 the decorator no_auto_store() returned: the value of
\* PySchema.auto_register after it was applied
decorator_Enable(original_auto_register_value) == TRUE

decorator(original_auto_register_value) == original_auto_register_value

\* core.py:191-192 SchemaStore.__contains__
Contains(map, cls) == \E n \in DOMAIN map : map[n] = ClassEntry(cls)

\* the attributes of the classes created, their fields as field types
ClassView(tys, h) ==
    [cls \in DOMAIN tys |->
        [__name__ |-> cls,
         __bases__ |-> tys[cls].__bases__,
         _namespace |-> <<>>,
         _avro_namespace_ |-> <<>>,
         _schema_name |-> cls,
         _fields |-> [i \in 1..Len(tys[cls]._fields) |->
                        <<tys[cls]._fields[i][1], Resolve(h, tys[cls]._fields[i][2])>>]]]

Started == Cardinality(DOMAIN types) + Len(frames)
Top == frames[Len(frames)]

\* the class statement of the next class starts: with @no_auto_store() the
\* decorator expression is evaluated first (core.py:426-428), then the body
BeginClass(bases, decorated) ==
    /\ frames' = Append(frames,
                    [cls |-> DeclIds[Started + 1], bases |-> bases, dct |-> <<>>,
                     decorated |-> decorated,
                     original_auto_register_value |-> auto_register])
    /\ auto_register' = IF decorated THEN FALSE ELSE auto_register
    /\ UNCHANGED <<classes, serdeVars, heapVars, storeVars, cloneVars, cmpVars, travVars>>
    /\ UNCHANGED <<_next_index, objs, types, auto_store>>

\* a Field object is constructed, core.py:228-241: the heap, the counter and
\* the reference of the new object; a Map constructs the Text of its keys
\* after itself (types.py:314-316)
Field__init__(h, next, kind, sch, field_type) ==
    [objs |-> Append(h, FieldObject(kind, next, sch, field_type)),
     _next_index |-> next + (IF kind = "Map" THEN 2 ELSE 1),
     ref |-> Len(h) + 1]

\* a field expression such as Map(List(SubRecord(SELF))) is evaluated: the
\* innermost constructor runs first
RECURSIVE Evaluate(_, _, _, _, _)
Evaluate(h, next, wrappers, kind, sch) ==
    IF wrappers = <<>> THEN Field__init__(h, next, kind, sch, 0)
    ELSE LET inner == Evaluate(h, next, Tail(wrappers), kind, sch)
         IN  Field__init__(inner.objs, inner._next_index, wrappers[1], SELF, inner.ref)

\* the List and Map constructors wrapped around a Text or a SubRecord
Wrappers == {<<>>, <<"List">>, <<"Map">>, <<"Map", "List">>}

\* name = <field expression> in the class body being executed
Assign(name, wrappers, kind, sch) ==
    /\ frames # <<>>
    /\ name \notin DOMAIN Top.dct
    /\ Len(objs) + Len(wrappers) < MaxFields
    /\ objs' = Evaluate(objs, _next_index, wrappers, kind, sch).objs
    /\ _next_index' = Evaluate(objs, _next_index, wrappers, kind, sch)._next_index
    /\ frames' = [frames EXCEPT ![Len(frames)].dct =
                    (name :> Evaluate(objs, _next_index, wrappers, kind, sch).ref) @@ @]
    /\ UNCHANGED <<classes, serdeVars, heapVars, storeVars, cloneVars, cmpVars, travVars>>
    /\ UNCHANGED <<types, auto_register, auto_store>>

\* the body is done: core.py:330-345 PySchema.__new__ creates the class, lets
\* every field set its parent and adds the class to auto_store when
\* auto_register is set; then the decorator, if any, is applied
EndClass ==
    /\ frames # <<>>
    /\ types' = (Top.cls :>
                    [__bases__ |-> Top.bases,
                     _fields |-> _get_schema_attributes(types, objs, Top.bases, Top.dct),
                     \* what the driver notes of the class statement
                     decorated |-> Top.decorated,
                     depth |-> Len(frames)])
                 @@ types
    /\ objs' = SetParents(objs, _get_schema_attributes(types, objs, Top.bases, Top.dct), Top.cls)
    /\ classes' = ClassView(types', objs')
    /\ \E prev \in {auto_store}, cls \in {Top.cls} :
            auto_store' = IF auto_register THEN (add_record(prev, cls).map)' ELSE prev
    /\ auto_register' = IF Top.decorated THEN decorator(Top.original_auto_register_value)
                        ELSE auto_register
    /\ frames' = SubSeq(frames, 1, Len(frames) - 1)
    /\ UNCHANGED <<serdeVars, heapVars, storeVars, cloneVars, cmpVars, travVars, _next_index>>

\* after import pyschema: two Field objects were constructed (types.py:100
\* the default field_type of List, types.py:132 Enum._field_type), Record
\* was created under no_auto_store (core.py:438) and auto_store is empty
InitDecl ==
    /\ SerdeIdle
    /\ HeapIdle
    /\ StoreIdle
    /\ CloneIdle
    /\ CmpIdle
    /\ TravIdle
    /\ classes = <<>>
    /\ _next_index = 2
    /\ objs = <<>>
    /\ types = <<>>
    /\ auto_register = TRUE
    /\ auto_store = <<>>
    /\ frames = <<>>

\* class statements one after the other, none decorated
NextDecl ==
    \/ \E bases \in {<<>>} \cup {<<b>> : b \in DOMAIN types} :
            frames = <<>> /\ Started < MaxClasses /\ BeginClass(bases, FALSE)
    \/ \E name \in DeclNames, wrappers \in Wrappers : Assign(name, wrappers, "Text", SELF)
    \/ \E name \in DeclNames, wrappers \in Wrappers, sch \in {SELF} \cup DOMAIN types :
            Assign(name, wrappers, "SubRecord", sch)
    \/ EndClass

SpecDecl == InitDecl /\ [][NextDecl]_vars

\* class statements, decorated with @no_auto_store() or not, one after or
\* inside the other
NextAutoStore ==
    \/ \E decorated \in BOOLEAN : Started < MaxStatements /\ BeginClass(<<>>, decorated)
    \/ \E name \in {"a", "b"} : Assign(name, <<>>, "Text", SELF)
    \/ EndClass

SpecAutoStore == InitDecl /\ [][NextAutoStore]_vars

-----------------------------------------------------------------------------
\* the innermost Field object of a field: the field itself, or what the
\* Lists and Maps around it end in
RECURSIVE Innermost(_, _)
Innermost(h, ref) ==
    IF h[ref].kind \in {"List", "Map"} THEN Innermost(h, h[ref].field_type) ELSE ref

\* a value for the field: x, in a list of one element for each List around
\* the innermost field and in a dict of one key for each Map
RECURSIVE Wrapped(_, _, _)
Wrapped(h, ref, x) ==
    CASE h[ref].kind = "List" -> PyList(<<Wrapped(h, h[ref].field_type, x)>>)
      [] h[ref].kind = "Map" -> PyDict(uFoo :> Wrapped(h, h[ref].field_type, x))
      [] OTHER -> x

\* and the value inside the lists and dicts of a loaded value
RECURSIVE Unwrapped(_)
Unwrapped(x) ==
    CASE x.t = "list" /\ Len(x.v) = 1 -> Unwrapped(x.v[1])
      [] x.t = "dict" /\ DOMAIN x.v = {uFoo} -> Unwrapped(x.v[uFoo])
      [] OTHER -> x

\* an instance of cls with a value in every Text field
WithText(cls) ==
    RecordInit(cls, [k \in {n \in FieldNames(cls) : FieldType(cls, n).kind = "Text"} |-> uFoo])

\* the field at place i of class R is a SubRecord(SELF), or Lists and Maps
\* around one
IsSelfField(R, i) ==
    LET inner == objs[Innermost(objs, types[R]._fields[i][2])]
    IN  inner.kind = "SubRecord" /\ inner.schema_arg = SELF

\* dump of the field at place i of R accepts an instance of R, and load of
\* what it gives is an instance of R again
AcceptsAndRebuilds(R, i) ==
    LET f == _fields(R)[i][2]
        dumped == dump(f, Wrapped(objs, types[R]._fields[i][2], WithText(R)), [s \in 1..3 |-> s])
        back == load(f, dumped, [s \in 1..3 |-> s])
    IN  /\ ~IsRaise(dumped)
        /\ ~IsRaise(back)
        /\ Unwrapped(back).t = "record"
        /\ Unwrapped(back).cls = R

\* C16: once a record type R is declared, every SubRecord(SELF) field of R's
\* field set, alone or inside Lists and Maps, targets R: dump of the field
\* accepts instances of R and load gives instances of R.
C16_SelfBinding ==
    \A R \in DOMAIN types : \A i \in 1..Len(types[R]._fields) :
        IsSelfField(R, i) =>
            /\ objs[Innermost(objs, types[R]._fields[i][2])]._schema = R
            /\ AcceptsAndRebuilds(R, i)

-----------------------------------------------------------------------------
\* a class statement ends: the class of the innermost frame is created
ClassCreated == Len(frames') < Len(frames)

\* the fields the class being created inherits (it has at most one base
\* here), and the names of a field list in its order
Inherited == IF Top.bases = <<>> THEN <<>> ELSE types[Top.bases[1]]._fields
NamesOf(fields) == [i \in 1..Len(fields) |-> fields[i][1]]

\* the Field objects have their declaration indices in the order of their
\* construction
IndicesIncrease(h) == \A i, j \in 1..Len(h) : i < j => h[i]._index < h[j]._index

\* the fields from place n on are those of the body under the names in
\* names, in increasing declaration index
OwnFieldsFrom(fields, n, names, dct, h) ==
    /\ Len(fields) = n - 1 + Cardinality(names)
    /\ \A i \in n..Len(fields) : fields[i][1] \in names /\ fields[i][2] = dct[fields[i][1]]
    /\ \A i, j \in n..Len(fields) : i < j => h[fields[i][2]]._index < h[fields[j][2]]._index

\* C17 as stated: every Field construction gets a declaration index greater
\* than that of every earlier construction, and the field list of a class is
\* the fields inherited from its bases followed by the fields of its own body
\* in increasing declaration index.
C17_FieldOrderAsStated ==
    [][/\ IndicesIncrease(objs')
       /\ ClassCreated =>
            /\ SubSeq(types'[Top.cls]._fields, 1, Len(Inherited)) = Inherited
            /\ OwnFieldsFrom(types'[Top.cls]._fields, Len(Inherited) + 1,
                             DOMAIN Top.dct, Top.dct, objs)]_vars

\* C17 amended: every Field construction gets a declaration index greater
\* than that of every earlier construction.  The field list of a class has
\* the inherited names first, in their inherited order, each with the
\* inherited field or, when the body declares the name again, with the field
\* of the body in that same place; the fields the body declares under new
\* names follow in increasing declaration index.  The field types that
\* construction, dump, repr and comparison go through are in that order.
C17_FieldOrder ==
    [][/\ IndicesIncrease(objs')
       /\ ClassCreated =>
            /\ \A i \in 1..Len(Inherited) :
                    /\ i <= Len(types'[Top.cls]._fields)
                    /\ types'[Top.cls]._fields[i][1] = Inherited[i][1]
                    /\ types'[Top.cls]._fields[i][2] =
                            IF Inherited[i][1] \in DOMAIN Top.dct THEN Top.dct[Inherited[i][1]]
                            ELSE Inherited[i][2]
            /\ OwnFieldsFrom(types'[Top.cls]._fields, Len(Inherited) + 1,
                             DOMAIN Top.dct \ {Inherited[i][1] : i \in 1..Len(Inherited)},
                             Top.dct, objs)
            /\ NamesOf(classes'[Top.cls]._fields) = NamesOf(types'[Top.cls]._fields)]_vars

C17_Witness ==
    /\ DOMAIN types = {"A", "B"}
    /\ types["B"].__bases__ = <<"A">>
    /\ types["A"]._fields = << <<"b", 1>>, <<"a", 2>> >>
    /\ types["B"]._fields = << <<"b", 1>>, <<"a", 2>>, <<"c", 3>> >>
    /\ NamesOf(_fields("B")) = <<"b", "a", "c">>
    /\ objs[1]._index < objs[2]._index
    /\ objs[2]._index < objs[3]._index

-----------------------------------------------------------------------------
\* C18: a class declared under @no_auto_store() is not added to auto_store,
\* and once its decorator was applied PySchema.auto_register has the value it
\* had before no_auto_store() was called, also when the class statement is
\* inside the body of another decorated one; a class declared while no
\* decorated class statement is being executed is added to auto_store, and
\* when no class statement is being executed auto_register is set as it was
\* at the start.
C18_NoAutoStore ==
    [][ClassCreated =>
        /\ Top.decorated =>
                /\ ~Contains(auto_store', Top.cls)
                /\ auto_register' = Top.original_auto_register_value
        /\ (\A i \in 1..Len(frames) : ~frames[i].decorated) => Contains(auto_store', Top.cls)
        /\ frames' = <<>> => auto_register']_vars

C18_Witness ==
    /\ frames = <<>>
    /\ DOMAIN types = {"A", "B", "C"}
    /\ types["A"].decorated /\ types["A"].depth = 1
    /\ types["B"].decorated /\ types["B"].depth = 2
    /\ ~types["C"].decorated /\ types["C"].depth = 1
    /\ ~Contains(auto_store, "A")
    /\ ~Contains(auto_store, "B")
    /\ Contains(auto_store, "C")
    /\ auto_register

-----------------------------------------------------------------------------
(* Claims about the Enum field type *)

EnumClasses == {"EnumRecord", "ReqEnum"}
\* v is one of the declared values
InVocabulary(v) == ~Unhashable(v) /\ InValues(v, FieldType(schema, "field").arg.v)
\* an instance with a non-null enum value was dumped
EnumDumped ==
    /\ schema \in EnumClasses
    /\ pc = "dumped"
    /\ record.v["field"] \notin {None, NO_DEFAULT}
\* a tree whose only key is the enum field's was loaded
EnumLoaded ==
    /\ schema \in EnumClasses
    /\ pc = "loaded"
    /\ wire = Unset
    /\ DOMAIN input.v = {PyUnicode(<<"field">>)}
WireValue == input.v[PyUnicode(<<"field">>)]

\* C19: an Enum field with declared values V dumps a value of V as that value
\* and raises ValueError for every value outside V; load raises ParseError for
\* every wire value outside V other than null, returns null when the field is
\* nullable, and raises ParseError for null when it is not.
C19_EnumVocabulary ==
    /\ EnumDumped =>
            IF InVocabulary(record.v["field"])
            THEN /\ ~IsRaise(wire)
                 /\ PyCmp(wire.v[PyStr(<<"field">>)], record.v["field"]) = "eq"
            ELSE wire = Raise("ValueError")
    /\ EnumLoaded =>
            IF WireValue = None
            THEN IF FieldType(schema, "field").nullable
                 THEN ~IsRaise(loaded) /\ loaded.v["field"] = None
                 ELSE loaded = Raise("ParseError")
            ELSE IF InVocabulary(WireValue)
                 THEN IsRaise(loaded) \/ loaded.v["field"] = WireValue
                 ELSE loaded = Raise("ParseError")

-----------------------------------------------------------------------------
(* Claims about the errors of load *)

\* a tree with the key "field" and no other was loaded as an instance of a
\* class whose only field is "field"
FieldLoaded ==
    /\ pc = "loaded"
    /\ wire = Unset
    /\ FieldNames(schema) = {"field"}
    /\ DOMAIN input.v = {PyUnicode(<<"field">>)}

\* the wire value w is malformed for the field type f
Malformed(f, w) ==
    CASE f.kind = "Text" -> ~IsText(w) /\ w # None
      [] f.kind = "Integer" -> w.t # "int" /\ w # None
      [] f.kind \in {"Boolean", "Float"} -> ~IsNumber(w) /\ w # None
      [] f.kind = "Date" -> w # None /\ (IsText(w) => IsRaise(DateParse(w.v)))
      [] f.kind = "DateTime" ->
            w # None /\ (IsText(w) => IsRaise(StrpTime(w.v, HasTok(w.v, "."))))
      [] f.kind = "Enum" -> w # None /\ (Unhashable(w) \/ ~InValues(w, f.arg.v))
      [] f.kind = "List" -> w.t # "list"
      [] f.kind = "Map" -> w.t # "dict"
      [] OTHER -> FALSE

\* C20: load of a wire value that is malformed for the field's type (wrong
\* scalar type, malformed date or date-time string, enum value outside the
\* vocabulary, non-list for List, non-dict for Map) raises ParseError and
\* returns no value.
C20_LoadErrorKind ==
    (FieldLoaded /\ Malformed(FieldType(schema, "field"), input.v[PyUnicode(<<"field">>)]))
        => loaded = Raise("ParseError")

-----------------------------------------------------------------------------
(* Schema graphs and their traversal (source_generation.py).  A graph is a
   state of the class statements: types and objs, the Field objects by
   reference, so that one Field object in the _fields of two classes is one
   node. *)

MaxEdges == 3
DefaultDepth == 1000

GraphClasses == {"A", "B", "C"}
\* the (class, class) pairs in the order their fields are declared
Pairs ==
    <<<<"A", "A">>, <<"A", "B">>, <<"A", "C">>, <<"B", "A">>, <<"B", "B">>, <<"B", "C">>,
      <<"C", "A">>, <<"C", "B">>, <<"C", "C">>>>
\* the name of the field of a class that refers to the class cls
FieldNameOf(cls) == CASE cls = "A" -> "a" [] cls = "B" -> "b" [] cls = "C" -> "c"

NoClasses(ids) ==
    [cls \in ids |-> [__bases__ |-> <<>>, _fields |-> <<>>, decorated |-> TRUE, depth |-> 1]]

\* the classes of GraphClasses with a field w(SubRecord(S)) in R for every
\* pair <<R, S>> of E from place k on, w the List and Map constructors around
\* it: a reference to the class itself is a SubRecord(SELF) bound by
\* set_parent, one to another class a SubRecord(S)
RECURSIVE AddReferences(_, _, _, _)
AddReferences(g, E, w, k) ==
    IF k > Len(Pairs) THEN g
    ELSE IF Pairs[k] \notin E THEN AddReferences(g, E, w, k + 1)
    ELSE LET R == Pairs[k][1]
             S == Pairs[k][2]
             made == Evaluate(g.objs, g._next_index, w, "SubRecord", IF R = S THEN SELF ELSE S)
         IN  AddReferences(
                [objs |-> set_parent_obj(made.objs, made.ref, R),
                 _next_index |-> made._next_index,
                 types |-> [g.types EXCEPT ![R]._fields = Append(@, <<FieldNameOf(S), made.ref>>)]],
                E, w, k + 1)

\* class A(Record): t = Text(), and the references E
ReferenceGraph(E, w) ==
    LET t == Field__init__(<<>>, 2, "Text", SELF, 0)
    IN  AddReferences(
            [objs |-> t.objs, _next_index |-> t._next_index,
             types |-> [NoClasses(GraphClasses) EXCEPT !["A"]._fields = << <<"t", t.ref>> >>]],
            E, w, 1)

\* a class statement executed on the graph g: PySchema.__new__
\* (core.py:330-345) with the Field objects of dct
DeclareClass(g, cls, bases, dct) ==
    LET fields == _get_schema_attributes(g.types, g.objs, bases, dct)
    IN  [objs |-> SetParents(g.objs, fields, cls),
         _next_index |-> g._next_index,
         types |-> (cls :> [__bases__ |-> bases, _fields |-> fields,
                            decorated |-> TRUE, depth |-> 1]) @@ g.types]

\* class A(Record): a = w(SubRecord(SELF));  class B(A): t = Text();
\* class C(Record): b = SubRecord(B) when withC
InheritedGraph(w, withC) ==
    LET a == Evaluate(<<>>, 2, w, "SubRecord", SELF)
        gA == DeclareClass([objs |-> a.objs, _next_index |-> a._next_index, types |-> <<>>],
                           "A", <<>>, "a" :> a.ref)
        t == Field__init__(gA.objs, gA._next_index, "Text", SELF, 0)
        gB == DeclareClass([gA EXCEPT !.objs = t.objs, !._next_index = t._next_index],
                           "B", <<"A">>, "t" :> t.ref)
        b == Field__init__(gB.objs, gB._next_index, "SubRecord", "B", 0)
        gC == DeclareClass([gB EXCEPT !.objs = b.objs, !._next_index = b._next_index],
                           "C", <<>>, IF withC THEN "b" :> b.ref ELSE <<>>)
    IN  gC

GraphWrappers == {<<>>, <<"Map", "List">>}
EdgeSets == {E \in SUBSET {Pairs[k] : k \in 1..Len(Pairs)} : Cardinality(E) <= MaxEdges}
Graphs ==
    {ReferenceGraph(E, w) : E \in EdgeSets, w \in GraphWrappers}
        \cup {InheritedGraph(w, withC) : w \in GraphWrappers, withC \in BOOLEAN}

\* the nodes find_descendants is called with: a record class or a Field object
ClassNode(cls) == [cls |-> cls, ref |-> 0]
FieldNode(ref) == [cls |-> "", ref |-> ref]
IsClassNode(a) == a.ref = 0

\* source_generation.py:228-230 CachedGraphTraverser.__init__, and raised, the
\* exception on its way up
CachedGraphTraverser == [descendants |-> <<>>, started |-> {}, raised |-> None]

\* source_generation.py:251 self.started.remove(a) at the end of a call that
\* gave subs: KeyError when a is not there
StartedRemove(T, a, subs) ==
    IF T.raised # None THEN [T |-> T, subs |-> {}]
    ELSE IF a \notin T.started THEN [T |-> [T EXCEPT !.raised = Raise("KeyError")], subs |-> {}]
    ELSE [T |-> [T EXCEPT !.started = @ \ {a}], subs |-> subs]

\* source_generation.py:233 a in self.descendants: only classes are ever keys
Cached_Never(T, a) == FALSE

Cached(T, a) == IsClassNode(a) /\ a.cls \in DOMAIN T.descendants

\* source_generation.py:248 subs.add(a._schema), before the test of line 249
subs_add_Guarded(T, sch) == IF ClassNode(sch) \in T.started THEN {} ELSE {sch}

subs_add(T, sch) == {sch}

RECURSIVE find_descendants(_, _, _, _)
RECURSIVE FieldsLoop(_, _, _, _, _)

\* source_generation.py:240-241 for _, field in a._fields.iteritems(): the
\* fields from place i on
FieldsLoop(g, T, fields, i, max_depth) ==
    IF i > Len(fields) \/ T.raised # None THEN [T |-> T, subs |-> {}]
    ELSE LET one == find_descendants(g, T, FieldNode(fields[i][2]), max_depth)
             rest == FieldsLoop(g, one.T, fields, i + 1, max_depth)
         IN  [T |-> rest.T, subs |-> one.subs \cup rest.subs]

\* source_generation.py:232-252 find_descendants(a, max_depth) on the
\* traverser T: the traverser afterwards and the set returned
find_descendants(g, T, a, max_depth) ==
    IF Cached(T, a)
    THEN [T |-> T, subs |-> T.descendants[a.cls]]
    ELSE LET T1 == [T EXCEPT !.started = @ \cup {a}]
         IN  IF ~(max_depth > 0) THEN [T |-> T1, subs |-> {}]
             ELSE IF IsClassNode(a)
             THEN LET body == FieldsLoop(g, T1, g.types[a.cls]._fields, 1, max_depth)
                  IN  StartedRemove(
                        IF body.T.raised # None THEN body.T
                        ELSE [body.T EXCEPT !.descendants = (a.cls :> body.subs) @@ @],
                        a, body.subs)
             ELSE IF g.objs[a.ref].kind \in {"List", "Map"}
             THEN LET body == find_descendants(g, T1, FieldNode(g.objs[a.ref].field_type), max_depth)
                  IN  StartedRemove(body.T, a, body.subs)
             ELSE IF g.objs[a.ref].kind = "SubRecord"
             THEN LET sch == g.objs[a.ref]._schema
                  IN  IF ClassNode(sch) \notin T1.started
                      THEN LET body == find_descendants(g, T1, ClassNode(sch), max_depth - 1)
                           IN  StartedRemove(body.T, a, subs_add(T1, sch) \cup body.subs)
                      ELSE StartedRemove(T1, a, subs_add(T1, sch))
             ELSE StartedRemove(T1, a, {})

\* the find_descendants calls of get_reference_ordered_schemas
\* (source_generation.py:255-256), in the order seq the set is iterated in
RECURSIVE FindAll(_, _, _, _)
FindAll(g, T, seq, i) ==
    IF i > Len(seq) \/ T.raised # None THEN T
    ELSE FindAll(g, find_descendants(g, T, ClassNode(seq[i]), DefaultDepth).T, seq, i + 1)

\* the classes of the set leaves as a list, in the order rank
RECURSIVE InOrder(_, _)
InOrder(leaves, rank) ==
    IF leaves = {} THEN <<>>
    ELSE LET first == CHOOSE x \in leaves : \A y \in leaves : rank[x] <= rank[y]
         IN  <<first>> \o InOrder(leaves \ {first}, rank)

\* every key of d at once, in the order the dict is iterated in
Peel_KeysAsIterated(d, rank) ==
    [raised |-> None, ordered_output |-> InOrder(DOMAIN d, rank)]

\* source_generation.py:259-275 the loop that peels the leaves off the working
\* copy d; rank is the order a dict is iterated in
RECURSIVE Peel(_, _)
Peel(d, rank) ==
    LET leaves == {root \in DOMAIN d : d[root] = {}}
    IN  IF DOMAIN d = {} THEN [raised |-> None, ordered_output |-> <<>>]
        ELSE IF leaves = {} THEN [raised |-> Raise("SourceGenerationError"), ordered_output |-> <<>>]
        ELSE LET rest == Peel([root \in DOMAIN d \ leaves |-> d[root] \ leaves], rank)
             IN  [raised |-> rest.raised,
                  ordered_output |-> InOrder(leaves, rank) \o rest.ordered_output]

\* source_generation.py:254-275 get_reference_ordered_schemas(schema_set): the
\* traverser afterwards and the list returned or the exception raised
get_reference_ordered_schemas(g, T, seq, rank) ==
    LET T1 == FindAll(g, T, seq, 1)
        peeled == Peel(T1.descendants, rank)
    IN  IF T1.raised # None THEN [T |-> T1, result |-> T1.raised]
        ELSE IF peeled.raised # None THEN [T |-> T1, result |-> peeled.raised]
        ELSE [T |-> T1, result |-> PyList(peeled.ordered_output)]

-----------------------------------------------------------------------------
(* The traversal driver: calls on one CachedGraphTraverser over a graph *)

MaxTopCalls == 2

Depths == {0, 1, DefaultDepth}
\* the orders a set or dict of classes is iterated in
IterationOrders(S) ==
    {seq \in [1..Cardinality(S) -> S] : \A i, j \in DOMAIN seq : seq[i] = seq[j] => i = j}
Ranks == {"A" :> 1 @@ "B" :> 2 @@ "C" :> 3, "A" :> 3 @@ "B" :> 2 @@ "C" :> 1}

Graph == [objs |-> objs, _next_index |-> _next_index, types |-> types]
Traverser == [descendants |-> descendants, started |-> started, raised |-> None]
PySet(v) == [t |-> "set", v |-> v]

\* class_graph.find_descendants(schema, max_depth)
FindDescendants(cls, max_depth) ==
    /\ stack = <<>>
    /\ LET out == find_descendants(Graph, Traverser, ClassNode(cls), max_depth)
       IN  /\ descendants' = out.T.descendants
           /\ started' = out.T.started
           /\ found' = [op |-> "find_descendants", schema_set |-> {cls},
                        max_depth |-> max_depth,
                        result |-> IF out.T.raised # None THEN out.T.raised
                                   ELSE PySet(out.subs)]
    /\ ncalls' = ncalls + 1
    /\ UNCHANGED <<classes, serdeVars, heapVars, storeVars, cloneVars, cmpVars, declVars, stack>>

\* class_graph.get_reference_ordered_schemas(schema_set)
GetReferenceOrderedSchemas(seq, rank) ==
    /\ stack = <<>>
    /\ LET out == get_reference_ordered_schemas(Graph, Traverser, seq, rank)
       IN  /\ descendants' = out.T.descendants
           /\ started' = out.T.started
           /\ found' = [op |-> "get_reference_ordered_schemas",
                        schema_set |-> {seq[i] : i \in DOMAIN seq},
                        max_depth |-> DefaultDepth,
                        result |-> out.result]
    /\ ncalls' = ncalls + 1
    /\ UNCHANGED <<classes, serdeVars, heapVars, storeVars, cloneVars, cmpVars, declVars, stack>>

InitGraph ==
    /\ SerdeIdle
    /\ HeapIdle
    /\ StoreIdle
    /\ CloneIdle
    /\ CmpIdle
    /\ \E g \in Graphs :
            /\ objs = g.objs
            /\ _next_index = g._next_index
            /\ types = g.types
            /\ classes = ClassView(g.types, g.objs)
    /\ auto_register = TRUE
    /\ auto_store = <<>>
    /\ frames = <<>>
    /\ descendants = <<>>
    /\ started = {}
    /\ ncalls = 0
    /\ found = Unset
    /\ stack = <<>>

\* find_descendants calls on one traverser
NextGraph ==
    \E cls \in GraphClasses, max_depth \in Depths :
        ncalls < MaxTopCalls /\ FindDescendants(cls, max_depth)

SpecGraph == InitGraph /\ [][NextGraph]_vars

\* get_reference_ordered_schemas on a traverser that is new or has served one
\* find_descendants call; the traverser is not used afterwards
NextOrder ==
    \/ \E cls \in GraphClasses, max_depth \in Depths :
            ncalls = 0 /\ FindDescendants(cls, max_depth)
    \/ \E S \in SUBSET GraphClasses, rank \in Ranks :
            \E seq \in IterationOrders(S) :
                /\ IF found = Unset THEN TRUE ELSE found.op = "find_descendants"
                /\ GetReferenceOrderedSchemas(seq, rank)

SpecOrder == InitGraph /\ [][NextOrder]_vars

-----------------------------------------------------------------------------
(* Further claims about the SchemaStore *)

\* the names with a namespace under which the store holds the placeholder
Poisoned(map) ==
    {n \in DOMAIN map : HasTok(n, ".") /\ map[n] = InvalidSchemaSpecification}

\* C26: a full name with a namespace whose entry is the placeholder keeps the
\* placeholder through every later step but clear(), whichever class is
\* added, the two classes of the conflict included; clear() removes it.
C26_PoisonAbsorbing ==
    [][/\ result'.op # "clear" => Poisoned(_schema_map) \subseteq Poisoned(_schema_map')
       /\ result'.op = "clear" => Poisoned(_schema_map') = {}]_vars

\* one of the two classes of the conflict was added again, and the name is
\* still poisoned
C26_Witness ==
    /\ added = <<"NamespacedTestRecord", "DuplicatedTestRecord", "NamespacedTestRecord">>
    /\ result.op = "add_record"
    /\ result.out = ClassEntry("NamespacedTestRecord")
    /\ get_full_name("NamespacedTestRecord") \in Poisoned(_schema_map)

\* the positions in added of the classes named n, without and with a namespace
BareAdds(n) == {i \in DOMAIN added : <<classes[added[i]].__name__>> = n /\ ~has_namespace(added[i])}
NamespacedAdds(n) == {i \in DOMAIN added : <<classes[added[i]].__name__>> = n /\ has_namespace(added[i])}
Last(I) == CHOOSE i \in I : \A j \in I : j <= i
First(I) == CHOOSE i \in I : \A j \in I : i <= j

\* the entry the rule gives the bare name n after the calls of added
BareSlot(n) ==
    IF BareAdds(n) # {} THEN ClassEntry(added[Last(BareAdds(n))])
    ELSE IF NamespacedAdds(n) # {} THEN ClassEntry(added[First(NamespacedAdds(n))])
    ELSE None

BareNames == {<<classes[cls].__name__>> : cls \in StoreClasses \cup RedefinedClasses}

\* C27: after the add_record calls made on a fresh store, the entry under a
\* bare name n is the non-namespaced class named n added last, if there is
\* one, and else the namespaced class named n added first; adding a
\* namespaced class leaves an occupied bare-name entry as it is.
C27_BareSlotRule ==
    /\ [](\A n \in BareNames :
            IF BareSlot(n) = None THEN n \notin DOMAIN _schema_map
            ELSE n \in DOMAIN _schema_map /\ _schema_map[n] = BareSlot(n))
    /\ [][\A cls \in StoreClasses \cup RedefinedClasses :
            (added' = Append(added, cls) /\ has_namespace(cls)
                /\ <<classes[cls].__name__>> \in DOMAIN _schema_map)
            => _schema_map'[<<classes[cls].__name__>>] = _schema_map[<<classes[cls].__name__>>]]_vars

\* two non-namespaced classes of one name were added, then a namespaced one:
\* the bare name holds the second
C27_Witness ==
    /\ added = <<"TestRecord", "RedefinedTestRecord", "OtherNamespaceTestRecord">>
    /\ result.op = "add_record"
    /\ _schema_map[<<"TestRecord">>] = ClassEntry("RedefinedTestRecord")

-----------------------------------------------------------------------------
(* Claims about find_descendants *)

\* the classes the fields of R refer to: the schema of every SubRecord, alone
\* or inside Lists and Maps
References(R) ==
    {objs[Innermost(objs, types[R]._fields[i][2])]._schema :
        i \in {j \in 1..Len(types[R]._fields) :
                    objs[Innermost(objs, types[R]._fields[j][2])].kind = "SubRecord"}}

\* the classes reached from the classes of S in at most n more references
RECURSIVE Closure(_, _)
Closure(S, n) ==
    IF n = 0 THEN S ELSE Closure(S \cup UNION {References(x) : x \in S}, n - 1)

\* the classes reachable from R through one or more references
Reachable(R) == Closure(References(R), Cardinality(DOMAIN types))

\* the first call on a new traverser was find_descendants(R) with the default
\* depth, and it is over
FirstFindDone(R) ==
    /\ ncalls = 1
    /\ found.op = "find_descendants"
    /\ found.schema_set = {R}
    /\ found.max_depth = DefaultDepth

\* S has every class reachable from R other than R, and no unreachable one
ExactlyReachable(S, R) == Reachable(R) \ {R} \subseteq S /\ S \subseteq Reachable(R)

\* C21: on a new traverser, find_descendants(R) with the default depth returns
\* a set with every class reachable from R other than R and no unreachable
\* class, and so is the memoized entry of every class visited on the way.
C21_DescendantDiscovery ==
    \A R \in DOMAIN types :
        FirstFindDone(R) =>
            /\ found.result.t = "set"
            /\ ExactlyReachable(found.result.v, R)
            /\ \A X \in DOMAIN descendants : ExactlyReachable(descendants[X], X)

\* the last call was find_descendants(R), and it returned
FindReturned(R) ==
    /\ found # Unset
    /\ found.op = "find_descendants"
    /\ found.schema_set = {R}
    /\ found.result.t = "set"

C29_StartedRestored ==
    \A R \in DOMAIN types : FindReturned(R) => started = {}

-----------------------------------------------------------------------------
(* Claims about get_reference_ordered_schemas *)

\* the last call was get_reference_ordered_schemas, and it returned a list
OrderReturned ==
    /\ found # Unset
    /\ found.op = "get_reference_ordered_schemas"
    /\ found.result.t = "list"

\* C24: whenever get_reference_ordered_schemas(S) returns, every class of S
\* and every class reachable from S is in the list, no class is in the list
\* twice, and every class comes after every class it references, directly or
\* through other classes.
C24_DependencyOrder ==
    OrderReturned =>
        LET out == found.result.v
        IN  /\ \A R \in found.schema_set \cup UNION {Reachable(X) : X \in found.schema_set} :
                    \E i \in DOMAIN out : out[i] = R
            /\ \A i, j \in DOMAIN out : out[i] = out[j] => i = j
            /\ \A i, j \in DOMAIN out : out[j] \in Reachable(out[i]) => j < i

\* a list of three classes came back, one of them not in S, and some class
\* stands after a class it references only through another
C24_Witness ==
    /\ OrderReturned
    /\ Len(found.result.v) = 3
    /\ Cardinality(found.schema_set) = 1
    /\ \E i, j \in DOMAIN found.result.v :
            /\ j < i
            /\ found.result.v[j] \in Reachable(found.result.v[i])
            /\ found.result.v[j] \notin References(found.result.v[i])

\* the last call was get_reference_ordered_schemas
OrderDone == found # Unset /\ found.op = "get_reference_ordered_schemas"

\* the graph of the classes of S and their descendants has a reference cycle
Cyclic(S) ==
    \E X \in S \cup UNION {Reachable(Y) : Y \in S} : X \in Reachable(X)

\* C25: get_reference_ordered_schemas(S) raises SourceGenerationError exactly
\* when the graph of the classes of S and their descendants has a reference
\* cycle, a SubRecord(SELF) being one, and returns a list otherwise.
C25_CycleDetection ==
    (OrderDone /\ ncalls = 1) =>
        /\ found.result = Raise("SourceGenerationError") <=> Cyclic(found.schema_set)
        /\ ~Cyclic(found.schema_set) => found.result.t = "list"

\* C30: on a new traverser, whichever order the classes of schema_set are
\* visited in, get_reference_ordered_schemas leaves the same memoized
\* descendant sets and succeeds or fails alike.
C30_TraversalDeterminism ==
    (OrderDone /\ ncalls = 1) =>
        \A seq \in IterationOrders(found.schema_set), rank \in Ranks :
            LET other == get_reference_ordered_schemas(Graph, CachedGraphTraverser, seq, rank)
            IN  /\ other.T.descendants = descendants
                /\ (other.result.t = "list") <=> (found.result.t = "list")

-----------------------------------------------------------------------------
(* find_descendants step by step: every call and every return of the
   recursion is a step, stack holds the calls in progress. *)

\* a call in progress: its arguments, its local subs and the calls its body
\* has still to make
Frame(a, max_depth, subs, todo) ==
    [a |-> a, max_depth |-> max_depth, subs |-> subs, todo |-> todo]
Callee(a, max_depth) == [a |-> a, max_depth |-> max_depth]

\* source_generation.py:233-250 a call find_descendants(a, max_depth) up to the
\* first call its body makes: it returns at once from the cache or at depth 0,
\* or it becomes a frame
Entered(g, T, a, max_depth) ==
    LET started1 == T.started \cup {a}
        T1 == [T EXCEPT !.started = started1]
        obj == g.objs[a.ref]
        fields == g.types[a.cls]._fields
    IN  IF Cached(T, a)
        THEN [returns |-> TRUE, subs |-> T.descendants[a.cls], started |-> T.started,
              frame |-> Frame(a, max_depth, {}, <<>>)]
        ELSE IF ~(max_depth > 0)
        THEN [returns |-> TRUE, subs |-> {}, started |-> started1,
              frame |-> Frame(a, max_depth, {}, <<>>)]
        ELSE [returns |-> FALSE, subs |-> {}, started |-> started1,
              frame |->
                IF IsClassNode(a)
                THEN Frame(a, max_depth, {},
                           [i \in 1..Len(fields) |-> Callee(FieldNode(fields[i][2]), max_depth)])
                ELSE IF obj.kind \in {"List", "Map"}
                THEN Frame(a, max_depth, {}, <<Callee(FieldNode(obj.field_type), max_depth)>>)
                ELSE IF obj.kind = "SubRecord"
                THEN Frame(a, max_depth, subs_add(T1, obj._schema),
                           IF ClassNode(obj._schema) \notin started1
                           THEN <<Callee(ClassNode(obj._schema), max_depth - 1)>>
                           ELSE <<>>)
                ELSE Frame(a, max_depth, {}, <<>>)]

Current == stack[Len(stack)]
\* what the call at the bottom of the stack gave
Outcome_find(res) ==
    [op |-> "find_descendants", schema_set |-> {stack[1].a.cls},
     max_depth |-> stack[1].max_depth, result |-> res]

\* class_graph.find_descendants(cls, max_depth) is called
BeginFind(cls, max_depth) ==
    /\ stack = <<>>
    /\ LET e == Entered(Graph, Traverser, ClassNode(cls), max_depth)
       IN  /\ started' = e.started
           /\ stack' = IF e.returns THEN <<>> ELSE <<e.frame>>
           /\ found' = IF e.returns
                       THEN [op |-> "find_descendants", schema_set |-> {cls},
                             max_depth |-> max_depth, result |-> PySet(e.subs)]
                       ELSE Unset
    /\ ncalls' = ncalls + 1
    /\ UNCHANGED <<classes, serdeVars, heapVars, storeVars, cloneVars, cmpVars, declVars,
                   descendants>>

\* the body of the innermost call makes its next call
CallInner ==
    /\ stack # <<>>
    /\ Current.todo # <<>>
    /\ LET e == Entered(Graph, Traverser, Head(Current.todo).a, Head(Current.todo).max_depth)
           rest == [Current EXCEPT !.todo = Tail(@)]
       IN  /\ started' = e.started
           /\ stack' = IF e.returns
                       THEN [stack EXCEPT ![Len(stack)] = [rest EXCEPT !.subs = @ \cup e.subs]]
                       ELSE Append([stack EXCEPT ![Len(stack)] = rest], e.frame)
    /\ UNCHANGED <<classes, serdeVars, heapVars, storeVars, cloneVars, cmpVars, declVars,
                   descendants, ncalls, found>>

\* source_generation.py:242, 251-252 the innermost call ends: a class is
\* memoized, a is removed from started, subs goes to the caller
Return ==
    /\ stack # <<>>
    /\ Current.todo = <<>>
    /\ LET T1 == IF IsClassNode(Current.a)
                 THEN [Traverser EXCEPT !.descendants = (Current.a.cls :> Current.subs) @@ @]
                 ELSE Traverser
           out == StartedRemove(T1, Current.a, Current.subs)
           caller == stack[Len(stack) - 1]
       IN  /\ descendants' = out.T.descendants
           /\ started' = out.T.started
           /\ IF out.T.raised # None
              THEN stack' = <<>> /\ found' = Outcome_find(out.T.raised)
              ELSE IF Len(stack) = 1
              THEN stack' = <<>> /\ found' = Outcome_find(PySet(out.subs))
              ELSE /\ stack' = Append(SubSeq(stack, 1, Len(stack) - 2),
                                      [caller EXCEPT !.subs = @ \cup out.subs])
                   /\ found' = found
    /\ UNCHANGED <<classes, serdeVars, heapVars, storeVars, cloneVars, cmpVars, declVars, ncalls>>

NextSteps ==
    \/ \E cls \in GraphClasses, max_depth \in Depths :
            ncalls < MaxTopCalls /\ BeginFind(cls, max_depth)
    \/ CallInner
    \/ Return

SpecSteps == InitGraph /\ [][NextSteps]_vars /\ WF_vars(CallInner \/ Return)

-----------------------------------------------------------------------------
(* Claims about the step-by-step traversal *)

\* no class is in two calls of the active recursion path
NoClassTwiceOnPath ==
    \A i, j \in DOMAIN stack :
        (i < j /\ IsClassNode(stack[i].a)) => stack[i].a # stack[j].a

\* a step that starts expanding a class starts it for a class without a
\* memoized entry
ExpandsOnlyUnmemoized ==
    (Len(stack') > Len(stack) /\ IsClassNode(stack'[Len(stack')].a))
        => stack'[Len(stack')].a.cls \notin DOMAIN descendants

\* C23: every find_descendants call, at any max_depth >= 0 and on graphs
\* with self references and mutual references, comes to an end; no class is
\* expanded again while it is on the active recursion path, and no memoized
\* class is expanded again.
C23_Termination ==
    /\ (stack # <<>>) ~> (stack = <<>>)
    /\ []NoClassTwiceOnPath
    /\ [][ExpandsOnlyUnmemoized]_vars

\* a SubRecord is met whose class is in progress further up the path: the
\* edge back is not followed
C23_Witness ==
    /\ Len(stack) >= 2
    /\ ~IsClassNode(Current.a)
    /\ objs[Current.a.ref].kind = "SubRecord"
    /\ \E i \in 1..(Len(stack) - 1) : stack[i].a = ClassNode(objs[Current.a.ref]._schema)
    /\ Current.todo = <<>>
    /\ Current.subs # {}

====
